---- MODULE Spec2Model ----
(***************************************************************************)
(* Umuganda platform: the analytics aggregation engine                     *)
(* (src/src/domain/services/AnalyticsEngine.ts) over the record store it    *)
(* reads through Prisma.                                                    *)
(*                                                                         *)
(* The record store is the engine's environment.  A post row carries its   *)
(* createdAt, category, hashtags, its three location references and the    *)
(* createdAt of every comment, reaction and repost attached to it.         *)
(* generateSummary is an async method: every awaited store read is one     *)
(* step of a call, so calls interleave at the awaits.                      *)
(*                                                                         *)
(* Numbers: Math.round is round-half-up; engagementScore is kept in        *)
(* hundredths (the integer Math.round produces before the division by 100).*)
(*                                                                         *)
(* Beside the engine: the PostBuilder                                      *)
(* (src/src/domain/builders/PostBuilder.ts), whose hashtags and images are *)
(* arrays held by reference, and the post factories with their registry    *)
(* (src/src/domain/factories/PostFactory.ts).  Strings that the code       *)
(* inspects are sequences: a content is a sequence of runs of a character, *)
(* a hashtag or a post type the sequence of its characters.                *)
(*                                                                         *)
(* The route handlers (posts, comments, reactions, reposts, analytics) and *)
(* PostService run as requests that take one step per await, two at a      *)
(* time; the comment, reaction and repost tables they write are sets of    *)
(* rows, and a request keeps what it saw and did for the properties.       *)
(***************************************************************************)
EXTENDS Integers, Sequences, FiniteSets, TLC

\* ---------------------------------------------------------------- bounds
MaxPosts == 2         \* posts in the store
MaxCatPosts == 3      \* posts in the store of the category specification
MaxTime == 2          \* timestamps are 1..MaxTime
MaxClock == 1         \* readings of the wall clock are 0..MaxClock
MaxEngines == 2       \* engines constructed in one behaviour
MaxListLen == 6       \* length of the lists fed to the ranking functions
MaxRegistrations == 2 \* registerFactory calls in one behaviour
MaxScorePosts == 8    \* posts of a node whose engagement score is computed
MaxScoreCount == 2    \* comments, reactions or reposts of such a node
MaxPerCategory == 2   \* posts of one category at a location node

Times == 1..MaxTime
Windows == [startDate : Times, endDate : Times]

\* ------------------------------------------------------------- utilities
\* null is the empty sequence, a value v that is present is <<v>>
NULL == <<>>
Some(v) == <<v>>
Value(opt) == opt[1]

Min(a, b) == IF a <= b THEN a ELSE b

\* Math.floor in place of Math.round
MathRound_Floor(num, den) == num \div den

\* rounding to the nearest integer with halves to the even neighbour
MathRound_HalfEven(num, den) ==
  LET down == num \div den
  IN IF 2 * num = (2 * down + 1) * den
     THEN (IF down % 2 = 0 THEN down ELSE down + 1)
     ELSE (2 * num + den) \div (2 * den)

\* Math.round(num / den) for num >= 0, den > 0: the nearest integer, halves up
MathRound(num, den) == (2 * num + den) \div (2 * den)

\* x || 1
OrOne(x) == IF x = 0 THEN 1 ELSE x

RECURSIVE SumSeq(_)
SumSeq(s) == IF s = <<>> THEN 0 ELSE Head(s) + SumSeq(Tail(s))

Take(s, n) == SubSeq(s, 1, Min(n, Len(s)))

\* where key k sits in a sequence of [key, count] entries, 0 when absent
IndexOfKey(entries, k) ==
  IF \E i \in 1..Len(entries) : entries[i].key = k
  THEN CHOOSE i \in 1..Len(entries) : entries[i].key = k
  ELSE 0

\* map.set(k, (map.get(k) || 0) + 1): a Map iterates in first-insertion order
MapIncrement(entries, k) ==
  LET i == IndexOfKey(entries, k) IN
  IF i = 0
  THEN Append(entries, [key |-> k, count |-> 1])
  ELSE [entries EXCEPT ![i].count = @ + 1]

RECURSIVE CountKeys(_, _)
CountKeys(entries, keys) ==
  IF keys = <<>> THEN entries
  ELSE CountKeys(MapIncrement(entries, Head(keys)), Tail(keys))

\* an insertion that puts an element in front of its equals: a sort that
\* reverses ties
RECURSIVE InsertDesc_BeforeEquals(_, _, _)
InsertDesc_BeforeEquals(idx, i, keys) ==
  IF idx = <<>> THEN <<i>>
  ELSE IF keys[Head(idx)] <= keys[i] THEN <<i>> \o idx
  ELSE <<Head(idx)>> \o InsertDesc_BeforeEquals(Tail(idx), i, keys)

\* Array.prototype.sort((a, b) => b.f - a.f) is stable: an element goes in
\* front of the first element that is strictly smaller.  idx is the sorted
\* sequence of positions so far, keys[i] the sort key of position i.
RECURSIVE InsertDesc(_, _, _)
InsertDesc(idx, i, keys) ==
  IF idx = <<>> THEN <<i>>
  ELSE IF keys[Head(idx)] < keys[i] THEN <<i>> \o idx
  ELSE <<Head(idx)>> \o InsertDesc(Tail(idx), i, keys)

RECURSIVE SortedPositions(_, _)
SortedPositions(n, keys) ==
  IF n = 0 THEN <<>>
  ELSE InsertDesc(SortedPositions(n - 1, keys), n, keys)

\* s sorted descending by keys (keys[i] is the key of s[i]), stable
SortDesc(s, keys) ==
  LET idx == SortedPositions(Len(s), keys) IN
  [j \in 1..Len(s) |-> s[idx[j]]]

\* ------------------------------------------------------------ record store
\* Location nodes in the order prisma.<level>.findMany returns them
Cells == << [id |-> "c3", name |-> "Kiyovu"], [id |-> "c1", name |-> "Gisozi"],
            [id |-> "c2", name |-> "Remera"] >>
Sectors == << [id |-> "s1", name |-> "Gisozi"], [id |-> "s2", name |-> "Remera"] >>
Districts == << [id |-> "d2", name |-> "Kicukiro"], [id |-> "d1", name |-> "Gasabo"] >>

\* (cellId, sectorId, districtId) of a post, as setLocation receives them
Locations == { [cellId |-> "c1", sectorId |-> "s1", districtId |-> "d1"],
               [cellId |-> "c2", sectorId |-> "s2", districtId |-> "d1"] }

\* a post row with its nested relations; comments, reactions and reposts are
\* the createdAt of the rows attached to the post
PostRow(t, cat, tags, loc, cs, rs, ps) ==
  [createdAt |-> t, category |-> cat, hashtags |-> tags,
   cellId |-> loc.cellId, sectorId |-> loc.sectorId, districtId |-> loc.districtId,
   comments |-> cs, reactions |-> rs, reposts |-> ps]

VARIABLES
  posts,      \* the post table, in the order findMany returns its rows
  clock,      \* the last reading of the wall clock (new Date())
  instance,   \* AnalyticsEngine.instance: 0 for null, else a position in engines
  engines,    \* every engine constructed so far: [lastUpdated]
  returned,   \* the engines getInstance has returned
  calls,      \* the generateSummary calls: position, arguments and locals
  kept,       \* a summary its caller kept, with the arguments that gave it
  input,      \* argument of a function applied on its own
  output,     \* what the function returned for input
  builder,    \* the fields of a PostBuilder; hashtags and images are references
  arrays,     \* the arrays the builder and its posts refer to, by reference
  built,      \* the Post the last successful build() returned, as its caller holds it
  outcome,    \* the last operation on the builder and what it threw
  factories,  \* PostFactoryCreator.factories: lower-cased type -> factory
  registrations, \* the registerFactory calls made so far, oldest first
  requests,   \* the route handler calls: position, session, body and locals
  service,    \* the PostService call in progress: position, input and locals
  commentTable,  \* the comment rows, as the route handlers reach them by key
  reactionTable, \* the reaction rows
  repostTable,   \* the repost rows
  nextId      \* the number the store gives the next row it creates

engineVars == <<posts, clock, instance, engines, returned, calls, kept>>
builderVars == <<builder, arrays, built, outcome>>
factoryVars == <<factories, registrations>>
routeVars == <<requests, service, commentTable, reactionTable, repostTable, nextId>>

vars == <<posts, clock, instance, engines, returned, calls, kept, input, output,
          builderVars, factoryVars, routeVars>>

\* the window filter without its upper end (lte forgotten)
InWindow_NoUpper(t, startDate, endDate) == startDate <= t

\* createdAt: { gte: startDate, lte: endDate }
InWindow(t, startDate, endDate) == startDate <= t /\ t <= endDate

\* a fetch that leaves out what the last aggregation has seen: only posts
\* created after the last reading of the clock
FindPosts_SinceLastUpdate(db, startDate, endDate) ==
  SelectSeq(db, LAMBDA p : InWindow(p.createdAt, startDate, endDate)
                             /\ p.createdAt > clock)

\* prisma.post.findMany({ where: { createdAt: { gte, lte } } })
FindPosts(db, startDate, endDate) ==
  SelectSeq(db, LAMBDA p : InWindow(p.createdAt, startDate, endDate))

\* prisma.post.count({ where: { createdAt: { gte, lte } } })
CountPostRows(db, startDate, endDate) == Len(FindPosts(db, startDate, endDate))

\* a count of the rows attached to the posts of the window, whenever the
\* rows themselves were created
CountRelationRows_OfWindowPosts(db, rel, startDate, endDate) ==
  SumSeq([i \in 1..Len(db) |->
     IF InWindow(db[i].createdAt, startDate, endDate) THEN Len(db[i][rel]) ELSE 0])

\* prisma.<comment|reaction|repost>.count({ where: { createdAt: { gte, lte } } });
\* rel is the relation of the post rows that holds the table's rows
CountRelationRows(db, rel, startDate, endDate) ==
  SumSeq([i \in 1..Len(db) |->
     Len(SelectSeq(db[i][rel], LAMBDA t : InWindow(t, startDate, endDate)))])

\* calculateEngagementScore with every interaction weighted 1
calculateEngagementScore_Unweighted(nPosts, nComments, nReactions, nReposts) ==
  LET score == nPosts + nComments + nReactions + nReposts
  IN MathRound(score * 100, OrOne(nPosts))

\* -------------------------------------------------------- AnalyticsEngine
\* engagementScore in hundredths
calculateEngagementScore(nPosts, nComments, nReactions, nReposts) ==
  LET score == nPosts * 1 + nComments * 2 + nReactions * 1 + nReposts * 3
  IN MathRound(score * 100, OrOne(nPosts))

\* the ranked list built from a category Map: entries -> {category, count,
\* percentage}, sorted by count
RankCategories(categoryMap, total) ==
  LET stats == [i \in 1..Len(categoryMap) |->
                  [category |-> categoryMap[i].key,
                   count |-> categoryMap[i].count,
                   percentage |-> MathRound(categoryMap[i].count * 100, total)]]
  IN SortDesc(stats, [i \in 1..Len(stats) |-> stats[i].count])

getCategoryStats(db, startDate, endDate) ==
  LET found == FindPosts(db, startDate, endDate)
      categoryMap == CountKeys(<<>>, [i \in 1..Len(found) |-> found[i].category])
      total == OrOne(Len(found))
  IN RankCategories(categoryMap, total)

\* reduce((a, b) => a + b, 1) over the counts of the hashtag Map
HashtagTotal(hashtagMap) ==
  SumSeq([i \in 1..Len(hashtagMap) |-> hashtagMap[i].count]) + 1

RECURSIVE Flatten(_)
Flatten(lists) == IF lists = <<>> THEN <<>> ELSE Head(lists) \o Flatten(Tail(lists))

\* getHashtagStats that sorts ascending (a.count - b.count) before the cut
getHashtagStats_Ascending(db, startDate, endDate) ==
  LET found == FindPosts(db, startDate, endDate)
      hashtagMap == CountKeys(<<>>, Flatten([i \in 1..Len(found) |-> found[i].hashtags]))
      total == HashtagTotal(hashtagMap)
      stats == [i \in 1..Len(hashtagMap) |->
                  [hashtag |-> hashtagMap[i].key,
                   count |-> hashtagMap[i].count,
                   percentage |-> MathRound(hashtagMap[i].count * 100, total)]]
  IN Take(SortDesc(stats, [i \in 1..Len(stats) |-> 0 - stats[i].count]), 10)

getHashtagStats(db, startDate, endDate) ==
  LET found == FindPosts(db, startDate, endDate)
      hashtagMap == CountKeys(<<>>, Flatten([i \in 1..Len(found) |-> found[i].hashtags]))
      total == HashtagTotal(hashtagMap)
      stats == [i \in 1..Len(hashtagMap) |->
                  [hashtag |-> hashtagMap[i].key,
                   count |-> hashtagMap[i].count,
                   percentage |-> MathRound(hashtagMap[i].count * 100, total)]]
  IN Take(SortDesc(stats, [i \in 1..Len(stats) |-> stats[i].count]), 10)

\* getCategoryStatsForLocation with the percentages taken against the posts
\* of the listed categories only
getCategoryStatsForLocation_ListedTotal(categories) ==
  LET categoryMap == CountKeys(<<>>, categories)
      listed == Take(RankCategories(categoryMap, 1), 5)
      total == OrOne(SumSeq([i \in 1..Len(listed) |-> listed[i].count]))
  IN Take(RankCategories(categoryMap, total), 5)

getCategoryStatsForLocation(categories) ==
  LET categoryMap == CountKeys(<<>>, categories)
      total == OrOne(Len(categories))
  IN Take(RankCategories(categoryMap, total), 5)

\* prisma.<level>.findMany({ include: { posts: { where: createdAt in window,
\* include: comments, reactions, reposts } } }): the posts of one node
NodePosts(db, ref, id, startDate, endDate) ==
  SelectSeq(db, LAMBDA p : p[ref] = id /\ InWindow(p.createdAt, startDate, endDate))

\* posts.reduce((acc, post) => acc + post.<rel>.length, 0)
TotalOf(nodePosts, rel) == SumSeq([i \in 1..Len(nodePosts) |-> Len(nodePosts[i][rel])])

\* LocationEntry with reposts left out of totalEngagement
LocationEntry_NoReposts(node, nodePosts) ==
  LET totalPosts == Len(nodePosts)
      totalComments == SumSeq([i \in 1..Len(nodePosts) |-> Len(nodePosts[i].comments)])
      totalReactions == SumSeq([i \in 1..Len(nodePosts) |-> Len(nodePosts[i].reactions)])
      totalReposts == SumSeq([i \in 1..Len(nodePosts) |-> Len(nodePosts[i].reposts)])
  IN [name |-> node.name, id |-> node.id,
      totalPosts |-> totalPosts,
      totalEngagement |-> totalPosts + totalComments + totalReactions,
      engagementScore |->
        calculateEngagementScore(totalPosts, totalComments, totalReactions, totalReposts),
      topCategories |->
        getCategoryStatsForLocation([i \in 1..Len(nodePosts) |-> nodePosts[i].category])]

\* the body of the loop over the nodes of one level
LocationEntry(node, nodePosts) ==
  LET totalPosts == Len(nodePosts)
      totalComments == TotalOf(nodePosts, "comments")
      totalReactions == TotalOf(nodePosts, "reactions")
      totalReposts == TotalOf(nodePosts, "reposts")
  IN [name |-> node.name, id |-> node.id,
      totalPosts |-> totalPosts,
      totalEngagement |-> totalPosts + totalComments + totalReactions + totalReposts,
      engagementScore |->
        calculateEngagementScore(totalPosts, totalComments, totalReactions, totalReposts),
      topCategories |->
        getCategoryStatsForLocation([i \in 1..Len(nodePosts) |-> nodePosts[i].category])]

LevelNodes(locationType) ==
  IF locationType = "cell" THEN Cells
  ELSE IF locationType = "sector" THEN Sectors ELSE Districts

LevelRef(locationType) ==
  IF locationType = "cell" THEN "cellId"
  ELSE IF locationType = "sector" THEN "sectorId" ELSE "districtId"

\* getLocationStats that returns the entries in the order of the fetch
getLocationStats_Unsorted(db, startDate, endDate, locationType) ==
  LET nodes == LevelNodes(locationType)
  IN [i \in 1..Len(nodes) |->
        LocationEntry(nodes[i],
           NodePosts(db, LevelRef(locationType), nodes[i].id, startDate, endDate))]

getLocationStats(db, startDate, endDate, locationType) ==
  LET nodes == LevelNodes(locationType)
      locationStats == [i \in 1..Len(nodes) |->
         LocationEntry(nodes[i],
            NodePosts(db, LevelRef(locationType), nodes[i].id, startDate, endDate))]
  IN SortDesc(locationStats,
              [i \in 1..Len(locationStats) |-> locationStats[i].engagementScore])

\* ------------------------------------------------------ generateSummary
\* The calls a specification runs; a slot is reused once its caller is done
\* with the result.
CallIds == {"call1", "call2"}

\* the store reads of one generateSummary, in the order the method awaits them
ReadOrder ==
  << "post.count", "comment.count", "reaction.count", "repost.count",
     "post.findMany(category)", "post.findMany(hashtags)",
     "cell.findMany", "sector.findMany", "district.findMany" >>

\* the position at which a call waits for each of the reads
AwaitOrder ==
  << "countPosts", "countComments", "countReactions", "countReposts",
     "categoryStats", "hashtagStats", "cellStats", "sectorStats", "districtStats" >>

\* what a failed read raises: the store cannot be reached, or the read timed out
Errors == {"connection", "timeout"}

IdleCall ==
  [pc |-> "idle", engine |-> 0, startDate |-> 0, endDate |-> 0,
   totalPosts |-> 0, totalComments |-> 0, totalReactions |-> 0, totalReposts |-> 0,
   topCategories |-> <<>>, topHashtags |-> <<>>, cellStats |-> <<>>,
   sectorStats |-> <<>>, result |-> NULL,
   issued |-> <<>>, raised |-> NULL, error |-> NULL]

\* the object generateSummary returns
Summary(c, districtStats, lastUpdated) ==
  [period |-> [startDate |-> c.startDate, endDate |-> c.endDate],
   national |-> [totalPosts |-> c.totalPosts,
                 totalComments |-> c.totalComments,
                 totalReactions |-> c.totalReactions,
                 totalReposts |-> c.totalReposts,
                 totalEngagement |->
                   c.totalPosts + c.totalComments + c.totalReactions + c.totalReposts],
   topCategories |-> c.topCategories,
   topHashtags |-> c.topHashtags,
   cellStats |-> c.cellStats,
   sectorStats |-> c.sectorStats,
   districtStats |-> districtStats,
   lastUpdated |-> lastUpdated]

\* getInstance without the test of the static field: every call constructs
GetInstance_AlwaysNew ==
  /\ Len(engines) < MaxEngines
  /\ engines' = Append(engines, [lastUpdated |-> NULL])
  /\ instance' = Len(engines) + 1
  /\ returned' = returned \cup {Len(engines) + 1}
  /\ UNCHANGED <<posts, clock, calls, kept, input, output, builderVars, factoryVars, routeVars>>

\* static getInstance(prisma)
GetInstance ==
  /\ instance = 0 => Len(engines) < MaxEngines
  /\ LET created == (instance = 0)
         e == IF created THEN Len(engines) + 1 ELSE instance
     IN /\ engines' = IF created THEN Append(engines, [lastUpdated |-> NULL])
                      ELSE engines
        /\ instance' = e
        /\ returned' = returned \cup {e}
  /\ UNCHANGED <<posts, clock, calls, kept, input, output, builderVars, factoryVars, routeVars>>

\* static resetInstance()
ResetInstance ==
  /\ instance' = 0
  /\ UNCHANGED <<posts, clock, engines, returned, calls, kept, input, output, builderVars, factoryVars, routeVars>>

\* engine.generateSummary(startDate, endDate) on a handle getInstance gave:
\* runs up to the first await, the post count
GenerateSummary(c, e, startDate, endDate) ==
  /\ calls[c].pc = "idle"
  /\ e \in returned
  /\ calls' = [calls EXCEPT ![c] = [IdleCall EXCEPT !.pc = "countPosts",
                 !.engine = e, !.startDate = startDate, !.endDate = endDate,
                 !.issued = <<ReadOrder[1]>>]]
  /\ UNCHANGED <<posts, clock, instance, engines, returned, kept, input, output, builderVars, factoryVars, routeVars>>

\* await prisma.post.count resolves; prisma.comment.count is issued
CountPosts(c) ==
  /\ calls[c].pc = "countPosts"
  /\ calls' = [calls EXCEPT ![c].pc = "countComments",
       ![c].issued = Append(@, ReadOrder[2]),
       ![c].totalPosts = CountPostRows(posts, calls[c].startDate, calls[c].endDate)]
  /\ UNCHANGED <<posts, clock, instance, engines, returned, kept, input, output, builderVars, factoryVars, routeVars>>

CountComments(c) ==
  /\ calls[c].pc = "countComments"
  /\ calls' = [calls EXCEPT ![c].pc = "countReactions",
       ![c].issued = Append(@, ReadOrder[3]),
       ![c].totalComments =
          CountRelationRows(posts, "comments", calls[c].startDate, calls[c].endDate)]
  /\ UNCHANGED <<posts, clock, instance, engines, returned, kept, input, output, builderVars, factoryVars, routeVars>>

CountReactions(c) ==
  /\ calls[c].pc = "countReactions"
  /\ calls' = [calls EXCEPT ![c].pc = "countReposts",
       ![c].issued = Append(@, ReadOrder[4]),
       ![c].totalReactions =
          CountRelationRows(posts, "reactions", calls[c].startDate, calls[c].endDate)]
  /\ UNCHANGED <<posts, clock, instance, engines, returned, kept, input, output, builderVars, factoryVars, routeVars>>

CountReposts(c) ==
  /\ calls[c].pc = "countReposts"
  /\ calls' = [calls EXCEPT ![c].pc = "categoryStats",
       ![c].issued = Append(@, ReadOrder[5]),
       ![c].totalReposts =
          CountRelationRows(posts, "reposts", calls[c].startDate, calls[c].endDate)]
  /\ UNCHANGED <<posts, clock, instance, engines, returned, kept, input, output, builderVars, factoryVars, routeVars>>

\* an engine that keeps the period of the call in a field of its own, which
\* the latest call to enter overwrites: the category fetch of a call uses the
\* period of the other call while that one is in progress
CategoryStats_SharedPeriod(c) ==
  /\ calls[c].pc = "categoryStats"
  /\ LET other == CHOOSE o \in CallIds : o # c
         period == IF calls[other].pc \in {"idle", "done", "rejected"}
                   THEN calls[c] ELSE calls[other]
     IN calls' = [calls EXCEPT ![c].pc = "hashtagStats",
          ![c].issued = Append(@, ReadOrder[6]),
          ![c].topCategories = getCategoryStats(posts, period.startDate, period.endDate)]
  /\ UNCHANGED <<posts, clock, instance, engines, returned, kept, input, output, builderVars, factoryVars, routeVars>>

CategoryStats(c) ==
  /\ calls[c].pc = "categoryStats"
  /\ calls' = [calls EXCEPT ![c].pc = "hashtagStats",
       ![c].issued = Append(@, ReadOrder[6]),
       ![c].topCategories = getCategoryStats(posts, calls[c].startDate, calls[c].endDate)]
  /\ UNCHANGED <<posts, clock, instance, engines, returned, kept, input, output, builderVars, factoryVars, routeVars>>

HashtagStats(c) ==
  /\ calls[c].pc = "hashtagStats"
  /\ calls' = [calls EXCEPT ![c].pc = "cellStats",
       ![c].issued = Append(@, ReadOrder[7]),
       ![c].topHashtags = getHashtagStats(posts, calls[c].startDate, calls[c].endDate)]
  /\ UNCHANGED <<posts, clock, instance, engines, returned, kept, input, output, builderVars, factoryVars, routeVars>>

CellStats(c) ==
  /\ calls[c].pc = "cellStats"
  /\ calls' = [calls EXCEPT ![c].pc = "sectorStats",
       ![c].issued = Append(@, ReadOrder[8]),
       ![c].cellStats =
          getLocationStats(posts, calls[c].startDate, calls[c].endDate, "cell")]
  /\ UNCHANGED <<posts, clock, instance, engines, returned, kept, input, output, builderVars, factoryVars, routeVars>>

SectorStats(c) ==
  /\ calls[c].pc = "sectorStats"
  /\ calls' = [calls EXCEPT ![c].pc = "districtStats",
       ![c].issued = Append(@, ReadOrder[9]),
       ![c].sectorStats =
          getLocationStats(posts, calls[c].startDate, calls[c].endDate, "sector")]
  /\ UNCHANGED <<posts, clock, instance, engines, returned, kept, input, output, builderVars, factoryVars, routeVars>>

\* the last read resolves: this.lastUpdated = new Date() and the return
DistrictStats(c) ==
  /\ calls[c].pc = "districtStats"
  /\ \E t \in clock..Min(clock + 1, MaxClock) :
       LET districtStats ==
             getLocationStats(posts, calls[c].startDate, calls[c].endDate, "district")
       IN /\ clock' = t
          /\ engines' = [engines EXCEPT ![calls[c].engine].lastUpdated = Some(t)]
          /\ calls' = [calls EXCEPT ![c] = [IdleCall EXCEPT !.pc = "done",
                !.engine = calls[c].engine,
                !.startDate = calls[c].startDate, !.endDate = calls[c].endDate,
                !.issued = calls[c].issued,
                !.result = Some(Summary(calls[c], districtStats, t))]]
  /\ UNCHANGED <<posts, instance, returned, kept, input, output, builderVars, factoryVars, routeVars>>

\* every field of a summary but lastUpdated
WithoutLastUpdated(s) == [f \in DOMAIN s \ {"lastUpdated"} |-> s[f]]

\* the caller keeps the summary it received to compare later ones with it
Keep(c) ==
  /\ calls[c].pc = "done"
  /\ kept' = Some([startDate |-> calls[c].startDate, endDate |-> calls[c].endDate,
                   summary |-> Value(calls[c].result)])
  /\ UNCHANGED <<posts, clock, instance, engines, returned, calls, input, output, builderVars, factoryVars, routeVars>>

\* the caller is done with the summary
Release(c) ==
  /\ calls[c].pc = "done"
  /\ calls' = [calls EXCEPT ![c] = IdleCall]
  /\ UNCHANGED <<posts, clock, instance, engines, returned, kept, input, output, builderVars, factoryVars, routeVars>>

\* a call that answers a failed read with what it has: the summary of the
\* parts read so far, the rest empty
Fail_PartialSummary(c) ==
  /\ calls[c].pc \in { AwaitOrder[i] : i \in DOMAIN AwaitOrder }
  /\ \E err \in Errors :
       calls' = [calls EXCEPT ![c] = [IdleCall EXCEPT !.pc = "done",
             !.engine = calls[c].engine,
             !.startDate = calls[c].startDate, !.endDate = calls[c].endDate,
             !.issued = calls[c].issued,
             !.raised = Some([read |-> calls[c].issued[Len(calls[c].issued)],
                              error |-> err]),
             !.result = Some(Summary(calls[c], <<>>, clock))]]
  /\ UNCHANGED <<posts, clock, instance, engines, returned, kept, input, output, builderVars, factoryVars, routeVars>>

\* a failed read that also stamps the engine: lastUpdated set on every
\* return of the method, not only on success
Fail_Stamped(c) ==
  /\ calls[c].pc \in { AwaitOrder[i] : i \in DOMAIN AwaitOrder }
  /\ \E err \in Errors :
       calls' = [calls EXCEPT ![c] = [IdleCall EXCEPT !.pc = "rejected",
             !.engine = calls[c].engine,
             !.startDate = calls[c].startDate, !.endDate = calls[c].endDate,
             !.issued = calls[c].issued,
             !.raised = Some([read |-> calls[c].issued[Len(calls[c].issued)],
                              error |-> err]),
             !.error = Some(err)]]
  /\ engines' = [engines EXCEPT ![calls[c].engine].lastUpdated = Some(clock)]
  /\ UNCHANGED <<posts, clock, instance, returned, kept, input, output, builderVars, factoryVars, routeVars>>

\* the awaited read rejects: no try/catch in generateSummary or in the
\* methods it awaits, so the rejection leaves the method at that await with
\* the error the store raised; the locals are dropped with the frame
Fail(c) ==
  /\ calls[c].pc \in { AwaitOrder[i] : i \in DOMAIN AwaitOrder }
  /\ \E err \in Errors :
       calls' = [calls EXCEPT ![c] = [IdleCall EXCEPT !.pc = "rejected",
             !.engine = calls[c].engine,
             !.startDate = calls[c].startDate, !.endDate = calls[c].endDate,
             !.issued = calls[c].issued,
             !.raised = Some([read |-> calls[c].issued[Len(calls[c].issued)],
                              error |-> err]),
             !.error = Some(err)]]
  /\ UNCHANGED <<posts, clock, instance, engines, returned, kept, input, output, builderVars, factoryVars, routeVars>>

\* the caller's catch block handles the rejection (the route answers 500)
Catch(c) ==
  /\ calls[c].pc = "rejected"
  /\ calls' = [calls EXCEPT ![c] = IdleCall]
  /\ UNCHANGED <<posts, clock, instance, engines, returned, kept, input, output, builderVars, factoryVars, routeVars>>

\* getLastUpdated()
getLastUpdated(e) == engines[e].lastUpdated

\* one of the nine awaited reads of call c resolves
Reads(c) ==
  \/ CountPosts(c)
  \/ CountComments(c)
  \/ CountReactions(c)
  \/ CountReposts(c)
  \/ CategoryStats(c)
  \/ HashtagStats(c)
  \/ CellStats(c)
  \/ SectorStats(c)
  \/ DistrictStats(c)

Step(c) ==
  \/ \E e \in returned, w \in Windows : GenerateSummary(c, e, w.startDate, w.endDate)
  \/ Reads(c)
  \/ Release(c)

\* what generateSummary(startDate, endDate) returns when its nine reads run
\* one after the other with no other call in between
RunAlone(db, startDate, endDate, lastUpdated) ==
  Summary([startDate |-> startDate, endDate |-> endDate,
           totalPosts |-> CountPostRows(db, startDate, endDate),
           totalComments |-> CountRelationRows(db, "comments", startDate, endDate),
           totalReactions |-> CountRelationRows(db, "reactions", startDate, endDate),
           totalReposts |-> CountRelationRows(db, "reposts", startDate, endDate),
           topCategories |-> getCategoryStats(db, startDate, endDate),
           topHashtags |-> getHashtagStats(db, startDate, endDate),
           cellStats |-> getLocationStats(db, startDate, endDate, "cell"),
           sectorStats |-> getLocationStats(db, startDate, endDate, "sector")],
          getLocationStats(db, startDate, endDate, "district"),
          lastUpdated)

\* ---------------------------------------------------------------- strings
\* A content string is a sequence of runs [ch, n], n > 0 copies of the
\* character ch; a hashtag or a post type is the sequence of its characters.
Run(ch, n) == [ch |-> ch, n |-> n]

\* String.prototype.length
StrLength(s) == SumSeq([i \in 1..Len(s) |-> s[i].n])

\* the white space trim() removes
IsBlank(ch) == ch \in {" ", "\t", "\n"}

RECURSIVE TrimStart(_)
TrimStart(s) == IF s # <<>> /\ IsBlank(Head(s).ch) THEN TrimStart(Tail(s)) ELSE s

RECURSIVE TrimEnd(_)
TrimEnd(s) ==
  IF s # <<>> /\ IsBlank(s[Len(s)].ch) THEN TrimEnd(SubSeq(s, 1, Len(s) - 1)) ELSE s

\* String.prototype.trim
Trim(s) == TrimEnd(TrimStart(s))

\* hashtag.startsWith("#")
StartsWithHash(hashtag) == hashtag # <<>> /\ hashtag[1] = "#"

\* Array.prototype.includes
Includes(list, x) == \E i \in DOMAIN list : list[i] = x

\* ------------------------------------------------------------ PostBuilder
PUBLISHED == "PUBLISHED"

\* uuidv4(): a value no earlier call has given
Uuids == { <<"uuid", 1>>, <<"uuid", 2>> }

\* the references arrays can have: at most two of the builder and two of
\* the post its caller holds are reachable at a time
Refs == 1..4

\* the smallest reference not in use
Alloc(used) == CHOOSE r \in Refs \ used : \A q \in Refs \ used : r <= q

\* the field initialisers of PostBuilder, with the two new arrays at h and i
NewBuilder(id, h, i, now) ==
  [id |-> id, content |-> <<>>, authorId |-> "", location |-> NULL,
   category |-> NULL, status |-> PUBLISHED, hashtags |-> h, images |-> i,
   createdAt |-> now]

\* the arrays reachable from the post its caller holds
PostRefs == IF built = NULL THEN {}
            ELSE {Value(built).post.hashtags, Value(built).post.images}

\* an operation returns this
Returns(op) == outcome' = [op |-> op, thrown |-> NULL]

\* an operation throws before it changed anything
Throws(op, message) ==
  /\ outcome' = [op |-> op, thrown |-> Some(message)]
  /\ UNCHANGED <<builder, arrays, built>>

\* setId(id)
SetId(id) ==
  /\ builder' = [builder EXCEPT !.id = id]
  /\ Returns("setId")
  /\ UNCHANGED <<arrays, built, engineVars, input, output, factoryVars, routeVars>>

\* setContent(content)
SetContent(content) ==
  /\ IF StrLength(content) = 0 \/ StrLength(Trim(content)) = 0
     THEN Throws("setContent", "Post content cannot be empty")
     ELSE IF StrLength(content) > 5000
     THEN Throws("setContent", "Post content exceeds maximum length (5000 characters)")
     ELSE /\ builder' = [builder EXCEPT !.content = Trim(content)]
          /\ Returns("setContent")
          /\ UNCHANGED <<arrays, built>>
  /\ UNCHANGED <<engineVars, input, output, factoryVars, routeVars>>

\* setAuthorId(authorId)
SetAuthorId(authorId) ==
  /\ IF authorId = ""
     THEN Throws("setAuthorId", "Author ID is required")
     ELSE /\ builder' = [builder EXCEPT !.authorId = authorId]
          /\ Returns("setAuthorId")
          /\ UNCHANGED <<arrays, built>>
  /\ UNCHANGED <<engineVars, input, output, factoryVars, routeVars>>

\* setLocation(cellId, sectorId, districtId)
SetLocation(cellId, sectorId, districtId) ==
  /\ IF cellId = "" \/ sectorId = "" \/ districtId = ""
     THEN Throws("setLocation", "Location must include cellId, sectorId, and districtId")
     ELSE /\ builder' = [builder EXCEPT !.location =
                 Some([cellId |-> cellId, sectorId |-> sectorId,
                       districtId |-> districtId])]
          /\ Returns("setLocation")
          /\ UNCHANGED <<arrays, built>>
  /\ UNCHANGED <<engineVars, input, output, factoryVars, routeVars>>

\* setCategory(category); "" stands for a missing category
SetCategory(category) ==
  /\ IF category = ""
     THEN Throws("setCategory", "Category is required")
     ELSE /\ builder' = [builder EXCEPT !.category = Some(category)]
          /\ Returns("setCategory")
          /\ UNCHANGED <<arrays, built>>
  /\ UNCHANGED <<engineVars, input, output, factoryVars, routeVars>>

\* setStatus(status)
SetStatus(status) ==
  /\ builder' = [builder EXCEPT !.status = status]
  /\ Returns("setStatus")
  /\ UNCHANGED <<arrays, built, engineVars, input, output, factoryVars, routeVars>>

\* addHashtag without the test for a tag that is already there
PushHashtag_NoDuplicateTest(list, hashtag) ==
  LET cleanedHashtag == IF StartsWithHash(hashtag) THEN hashtag ELSE <<"#">> \o hashtag
  IN IF Len(list) >= 10
     THEN [list |-> list, thrown |-> Some("Maximum 10 hashtags allowed per post")]
     ELSE [list |-> Append(list, cleanedHashtag), thrown |-> NULL]

\* the body of addHashtag on the array this.hashtags: the array afterwards
\* and what was thrown
PushHashtag(list, hashtag) ==
  LET cleanedHashtag == IF StartsWithHash(hashtag) THEN hashtag ELSE <<"#">> \o hashtag
  IN IF Includes(list, cleanedHashtag)
     THEN [list |-> list, thrown |-> NULL]
     ELSE IF Len(list) >= 10
     THEN [list |-> list, thrown |-> Some("Maximum 10 hashtags allowed per post")]
     ELSE [list |-> Append(list, cleanedHashtag), thrown |-> NULL]

\* hashtags.forEach((tag) => this.addHashtag(tag)): the tags before the one
\* that throws have been pushed
RECURSIVE PushHashtags(_, _)
PushHashtags(list, hashtags) ==
  IF hashtags = <<>> THEN [list |-> list, thrown |-> NULL]
  ELSE LET first == PushHashtag(list, Head(hashtags))
       IN IF first.thrown # NULL THEN first
          ELSE PushHashtags(first.list, Tail(hashtags))

\* addHashtag(hashtag)
AddHashtag(hashtag) ==
  /\ LET pushed == PushHashtag(arrays[builder.hashtags], hashtag)
     IN /\ arrays' = [arrays EXCEPT ![builder.hashtags] = pushed.list]
        /\ outcome' = [op |-> "addHashtag", hashtag |-> hashtag,
                       thrown |-> pushed.thrown]
  /\ UNCHANGED <<builder, built, engineVars, input, output, factoryVars, routeVars>>

\* addHashtags(hashtags)
AddHashtags(hashtags) ==
  /\ LET pushed == PushHashtags(arrays[builder.hashtags], hashtags)
     IN /\ arrays' = [arrays EXCEPT ![builder.hashtags] = pushed.list]
        /\ outcome' = [op |-> "addHashtags", hashtags |-> hashtags,
                       thrown |-> pushed.thrown]
  /\ UNCHANGED <<builder, built, engineVars, input, output, factoryVars, routeVars>>

\* addImage without the test of the length
AddImage_NoLimit(url, publicId, caption) ==
  /\ LET thrown == IF url = "" THEN Some("Image URL is required") ELSE NULL
     IN /\ outcome' = [op |-> "addImage", url |-> url, thrown |-> thrown]
        /\ arrays' = IF thrown # NULL THEN arrays
                     ELSE [arrays EXCEPT ![builder.images] =
                             Append(@, [url |-> url, publicId |-> publicId,
                                        caption |-> caption])]
  /\ UNCHANGED <<builder, built, engineVars, input, output, factoryVars, routeVars>>

\* addImage(url, publicId, caption)
AddImage(url, publicId, caption) ==
  /\ LET thrown == IF url = "" THEN Some("Image URL is required")
                   ELSE IF Len(arrays[builder.images]) >= 5
                   THEN Some("Maximum 5 images allowed per post")
                   ELSE NULL
     IN /\ outcome' = [op |-> "addImage", url |-> url, thrown |-> thrown]
        /\ arrays' = IF thrown # NULL THEN arrays
                     ELSE [arrays EXCEPT ![builder.images] =
                             Append(@, [url |-> url, publicId |-> publicId,
                                        caption |-> caption])]
  /\ UNCHANGED <<builder, built, engineVars, input, output, factoryVars, routeVars>>

\* addImages(images)
AddImages(images) ==
  /\ LET thrown == IF Len(arrays[builder.images]) + Len(images) > 5
                   THEN Some("Maximum 5 images allowed per post")
                   ELSE IF \E i \in DOMAIN images : images[i].url = ""
                   THEN Some("All images must have valid URLs")
                   ELSE NULL
     IN /\ outcome' = [op |-> "addImages", images |-> images, thrown |-> thrown]
        /\ arrays' = IF thrown # NULL THEN arrays
                     ELSE [arrays EXCEPT ![builder.images] = @ \o images]
  /\ UNCHANGED <<builder, built, engineVars, input, output, factoryVars, routeVars>>

\* setCreatedAt(date)
SetCreatedAt(date) ==
  /\ builder' = [builder EXCEPT !.createdAt = date]
  /\ Returns("setCreatedAt")
  /\ UNCHANGED <<arrays, built, engineVars, input, output, factoryVars, routeVars>>

\* validate without the test of the author: what it throws, NULL if nothing
validate_AuthorNotChecked(b) ==
  IF StrLength(b.content) = 0 THEN Some("Post content is required")
  ELSE IF b.location = NULL THEN Some("Post location is required")
  ELSE IF b.category = NULL THEN Some("Post category is required")
  ELSE NULL

\* validate(): what it throws, NULL if nothing
validate(b) ==
  IF StrLength(b.content) = 0 THEN Some("Post content is required")
  ELSE IF b.authorId = "" THEN Some("Author ID is required")
  ELSE IF b.location = NULL THEN Some("Post location is required")
  ELSE IF b.category = NULL THEN Some("Post category is required")
  ELSE NULL

\* new Post(...) as build() calls it: the post refers to the builder's own
\* hashtags and images arrays
Post(b, now) ==
  [id |-> b.id, content |-> b.content, authorId |-> b.authorId,
   location |-> Value(b.location), category |-> Value(b.category),
   status |-> b.status, hashtags |-> b.hashtags, images |-> b.images,
   metadata |-> [createdAt |-> b.createdAt, updatedAt |-> now]]

\* build(); its caller holds the post and remembers the two lists as they
\* were when it was returned.  Arrays that only an earlier post referred to
\* are no longer reachable.
Build ==
  /\ IF validate(builder) # NULL
     THEN Throws("build", Value(validate(builder)))
     ELSE /\ built' = Some([post |-> Post(builder, clock),
                            hashtags |-> arrays[builder.hashtags],
                            images |-> arrays[builder.images]])
          /\ arrays' = [r \in {builder.hashtags, builder.images} |-> arrays[r]]
          /\ Returns("build")
          /\ UNCHANGED builder
  /\ UNCHANGED <<engineVars, input, output, factoryVars, routeVars>>

\* reset that leaves the status as the previous post had it
Reset_KeepsStatus ==
  /\ \E id \in Uuids \ {builder.id} :
       LET h == Alloc(PostRefs)
           i == Alloc(PostRefs \cup {h})
       IN /\ builder' = [NewBuilder(id, h, i, clock) EXCEPT !.status = builder.status]
          /\ arrays' = [r \in PostRefs \cup {h, i} |->
                          IF r \in PostRefs THEN arrays[r] ELSE <<>>]
  /\ Returns("reset")
  /\ UNCHANGED <<built, engineVars, input, output, factoryVars, routeVars>>

\* reset(): every field is assigned anew, the two lists as new arrays; the
\* arrays given up stay reachable only from the post that refers to them
Reset ==
  /\ \E id \in Uuids \ {builder.id} :
       LET h == Alloc(PostRefs)
           i == Alloc(PostRefs \cup {h})
       IN /\ builder' = NewBuilder(id, h, i, clock)
          /\ arrays' = [r \in PostRefs \cup {h, i} |->
                          IF r \in PostRefs THEN arrays[r] ELSE <<>>]
  /\ Returns("reset")
  /\ UNCHANGED <<built, engineVars, input, output, factoryVars, routeVars>>

\* new PostBuilder()
InitBuilder ==
  /\ builder = NewBuilder(<<"uuid", 1>>, 1, 2, 0)
  /\ arrays = [r \in {1, 2} |-> <<>>]
  /\ built = NULL
  /\ outcome = [op |-> "new", thrown |-> NULL]

\* ------------------------------------------------------------ PostFactory
\* private readonly MAX_IMAGES
MAX_IMAGES == 5

\* what both createPost methods return for the base fields
BasePost(args) ==
  [content |-> args.content, authorId |-> args.authorId, cellId |-> args.cellId,
   sectorId |-> args.sectorId, districtId |-> args.districtId,
   category |-> args.category,
   status |-> IF args.status = NULL THEN PUBLISHED ELSE Value(args.status),
   hashtags |-> IF args.hashtags = NULL THEN <<>> ELSE Value(args.hashtags)]

Resolved(post) == [resolved |-> Some(post), rejected |-> NULL]
Rejected(message) == [resolved |-> NULL, rejected |-> Some(message)]

\* TextPostFactory.createPost(args)
TextPostFactory_createPost(args) ==
  IF StrLength(Trim(args.content)) = 0
  THEN Rejected("Post content cannot be empty")
  ELSE IF StrLength(args.content) > 5000
  THEN Rejected("Post content exceeds maximum length (5000 characters)")
  ELSE Resolved(BasePost(args))

\* ImagePostFactory.createPost without the upper limit on the images
ImagePostFactory_createPost_NoMaximum(args) ==
  IF StrLength(Trim(args.content)) = 0
  THEN Rejected("Post content cannot be empty")
  ELSE IF StrLength(args.content) > 5000
  THEN Rejected("Post content exceeds maximum length (5000 characters)")
  ELSE IF args.images = NULL \/ Len(Value(args.images)) = 0
  THEN Rejected("Image post must have at least 1 image(s)")
  ELSE IF \E i \in DOMAIN Value(args.images) : Value(args.images)[i].url = ""
  THEN Rejected("All images must have valid URLs")
  ELSE Resolved([f \in DOMAIN BasePost(args) \cup {"images"} |->
                   IF f = "images" THEN Value(args.images) ELSE BasePost(args)[f]])

\* ImagePostFactory.createPost(args)
ImagePostFactory_createPost(args) ==
  IF StrLength(Trim(args.content)) = 0
  THEN Rejected("Post content cannot be empty")
  ELSE IF StrLength(args.content) > 5000
  THEN Rejected("Post content exceeds maximum length (5000 characters)")
  ELSE IF args.images = NULL \/ Len(Value(args.images)) = 0
  THEN Rejected("Image post must have at least 1 image(s)")
  ELSE IF Len(Value(args.images)) > MAX_IMAGES
  THEN Rejected("Image post cannot exceed 5 images")
  ELSE IF \E i \in DOMAIN Value(args.images) : Value(args.images)[i].url = ""
  THEN Rejected("All images must have valid URLs")
  ELSE Resolved([f \in DOMAIN BasePost(args) \cup {"images"} |->
                   IF f = "images" THEN Value(args.images) ELSE BasePost(args)[f]])

\* a caller awaits factory.createPost(input)
CreateTextPost ==
  /\ output = NULL
  /\ output' = Some([fn |-> "TextPostFactory.createPost",
                     promise |-> TextPostFactory_createPost(input)])
  /\ UNCHANGED <<engineVars, input, builderVars, factoryVars, routeVars>>

CreateImagePost ==
  /\ output = NULL
  /\ output' = Some([fn |-> "ImagePostFactory.createPost",
                     promise |-> ImagePostFactory_createPost(input)])
  /\ UNCHANGED <<engineVars, input, builderVars, factoryVars, routeVars>>

\* ----------------------------------------------------- PostFactoryCreator
UpperCase == <<"T", "E", "X", "I", "M", "A", "G", "V", "D", "O">>
LowerCase == <<"t", "e", "x", "i", "m", "a", "g", "v", "d", "o">>

\* String.prototype.toLowerCase, character by character
toLowerCase(s) ==
  [i \in DOMAIN s |->
     IF \E k \in DOMAIN UpperCase : UpperCase[k] = s[i]
     THEN LowerCase[CHOOSE k \in DOMAIN UpperCase : UpperCase[k] = s[i]]
     ELSE s[i]]

\* the factory objects there are: the two the class creates when it is
\* loaded and one a caller made
TextFactory == "new TextPostFactory()"
ImageFactory == "new ImagePostFactory()"
OtherFactory == "a caller's factory"

\* private static factories = new Map([["text", ...], ["image", ...]])
InitFactories ==
  /\ factories = [k \in {<<"t", "e", "x", "t">>, <<"i", "m", "a", "g", "e">>} |->
                    IF k = <<"t", "e", "x", "t">> THEN TextFactory ELSE ImageFactory]
  /\ registrations = <<>>

\* registerFactory that keeps the type as it was given
RegisterFactory_CaseKept(postType, factory) ==
  /\ Len(registrations) < MaxRegistrations
  /\ factories' = [k \in DOMAIN factories \cup {postType} |->
                     IF k = postType THEN factory ELSE factories[k]]
  /\ registrations' = Append(registrations, [postType |-> postType, factory |-> factory])
  /\ UNCHANGED <<engineVars, input, output, builderVars, routeVars>>

\* static registerFactory(postType, factory)
RegisterFactory(postType, factory) ==
  /\ Len(registrations) < MaxRegistrations
  /\ factories' = [k \in DOMAIN factories \cup {toLowerCase(postType)} |->
                     IF k = toLowerCase(postType) THEN factory ELSE factories[k]]
  /\ registrations' = Append(registrations, [postType |-> postType, factory |-> factory])
  /\ UNCHANGED <<engineVars, input, output, builderVars, routeVars>>

\* static getFactory(postType); the caller notes how many registrations
\* had been made when it asked
GetFactory(postType) ==
  /\ output' =
       Some([fn |-> "getFactory", postType |-> postType,
             after |-> Len(registrations),
             promise |->
               IF toLowerCase(postType) \in DOMAIN factories
               THEN Resolved(factories[toLowerCase(postType)])
               ELSE Rejected(<<"Unknown post type: ", postType>>)])
  /\ UNCHANGED <<engineVars, input, builderVars, factoryVars, routeVars>>

\* ------------------------------------------------------- the route handlers
\* Requests are handled one await at a time, so two requests interleave at
\* their awaits.  session is what auth() resolves to: the id of the user, or
\* NULL without a session.
Users == {"user-1", "user-2"}

RequestIds == {"r1", "r2"}

\* enum ReactionType
ReactionTypes == {"LIKE", "LOVE", "HELPFUL", "INSPIRING"}

\* a request not yet made.  seen and after are what the caller could see
\* when it made the request: the tables, and the requests answered by then
IdleRequest ==
  [pc |-> "idle", route |-> "", session |-> NULL, body |-> NULL,
   validated |-> FALSE, ops |-> <<>>, found |-> NULL, response |-> NULL,
   seen |-> NULL, after |-> {}]

\* a PostService method not called; before is the post table when the call
\* was made
IdleService ==
  [pc |-> "idle", method |-> "", input |-> NULL, product |-> NULL,
   result |-> NULL, thrown |-> NULL, before |-> NULL]

\* NextResponse.json(apiError(code, message), { status })
ErrorResponse(status, code, message) ==
  Some([status |-> status, success |-> FALSE, code |-> code, message |-> message])

\* NextResponse.json(apiSuccess(data), { status })
SuccessResponse(status, data) ==
  Some([status |-> status, success |-> TRUE, data |-> data])

\* the handler returns: the request is answered
Respond(r, op, response) ==
  requests' = [requests EXCEPT ![r].pc = "answered", ![r].response = response,
                               ![r].ops = IF op = "" THEN @ ELSE Append(@, op)]

\* a request reaches its handler, which awaits auth()
Arrive(r, route, session, body) ==
  /\ requests[r].pc = "idle"
  /\ requests' = [requests EXCEPT ![r] =
       [IdleRequest EXCEPT !.pc = "auth", !.route = route, !.session = session,
          !.body = body,
          !.seen = Some([reactions |-> reactionTable, reposts |-> repostTable]),
          !.after = { q \in RequestIds : requests[q].pc = "answered" }]]
  /\ UNCHANGED <<engineVars, input, output, builderVars, factoryVars, service,
                 commentTable, reactionTable, repostTable, nextId>>

\* prisma.post.findUnique({ where: { id } })
FindPost(db, id) ==
  IF \E i \in DOMAIN db : db[i].id = id
  THEN Some(db[CHOOSE i \in DOMAIN db : db[i].id = id])
  ELSE NULL

\* prisma.<table>.findUnique({ where: { id } })
FindRow(table, id) ==
  IF \E row \in table : row.id = id
  THEN Some(CHOOSE row \in table : row.id = id)
  ELSE NULL

\* a handler that goes on without the test of the session
Authenticate_NoSessionTest(r) ==
  /\ requests[r].pc = "auth"
  /\ requests' = [requests EXCEPT ![r].pc = "authorized"]
  /\ UNCHANGED <<engineVars, input, output, builderVars, factoryVars, service,
                 commentTable, reactionTable, repostTable, nextId>>

\* const session = await auth(); if (!session?.user?.id) return 401: the first
\* statement of every protected handler
Authenticate(r) ==
  /\ requests[r].pc = "auth"
  /\ IF requests[r].session = NULL
     THEN Respond(r, "", ErrorResponse(401, "UNAUTHORIZED", "User not authenticated"))
     ELSE requests' = [requests EXCEPT ![r].pc = "authorized"]
  /\ UNCHANGED <<engineVars, input, output, builderVars, factoryVars, service,
                 commentTable, reactionTable, repostTable, nextId>>

\* ------------------------------------------------------- POST /reactions
\* the unique key of a reaction: the user, the target and the type
ReactionKey(row) == <<row.userId, row.postId, row.commentId, row.type>>

\* the reaction a request is about
RequestedReaction(q) ==
  [userId |-> Value(q.session), postId |-> Value(q.body).postId,
   commentId |-> Value(q.body).commentId, type |-> Value(q.body).type]

\* where: { userId_postId_type: ..., userId_commentId_type: ... }: the row of
\* the user and the type on the post, if a post is named, and on the comment,
\* if a comment is named
MatchesReaction(row, wanted) ==
  /\ row.userId = wanted.userId
  /\ row.type = wanted.type
  /\ wanted.postId # NULL => row.postId = wanted.postId
  /\ wanted.commentId # NULL => row.commentId = wanted.commentId

\* the store refuses a second row under a unique key: (userId, postId, type)
\* and (userId, commentId, type) are the keys findUnique looks rows up by
ReactionKeyTaken(table, wanted) ==
  \E row \in table :
    /\ row.userId = wanted.userId
    /\ row.type = wanted.type
    /\ \/ wanted.postId # NULL /\ row.postId = wanted.postId
       \/ wanted.commentId # NULL /\ row.commentId = wanted.commentId

\* request.json(), reactionSchema.safeParse(body) and the test for a target
Reactions_Parse(r) ==
  /\ requests[r].pc = "authorized"
  /\ requests[r].route = "POST /reactions"
  /\ LET body == Value(requests[r].body)
     IN IF body.type \notin ReactionTypes
        THEN Respond(r, "", ErrorResponse(400, "VALIDATION_ERROR", "Invalid input"))
        ELSE IF body.postId = NULL /\ body.commentId = NULL
        THEN requests' = [requests EXCEPT ![r].pc = "answered", ![r].validated = TRUE,
               ![r].response = ErrorResponse(400, "VALIDATION_ERROR",
                                  "Either postId or commentId is required")]
        ELSE requests' = [requests EXCEPT ![r].validated = TRUE,
               ![r].pc = IF body.postId # NULL THEN "findPost" ELSE "findComment"]
  /\ UNCHANGED <<engineVars, input, output, builderVars, factoryVars, service,
                 commentTable, reactionTable, repostTable, nextId>>

\* await prisma.post.findUnique({ where: { id: postId } })
Reactions_FindPost(r) ==
  /\ requests[r].pc = "findPost"
  /\ requests[r].route = "POST /reactions"
  /\ LET body == Value(requests[r].body)
     IN IF FindPost(posts, Value(body.postId)) = NULL
        THEN Respond(r, "post.findUnique", ErrorResponse(404, "NOT_FOUND", "Post not found"))
        ELSE requests' = [requests EXCEPT ![r].ops = Append(@, "post.findUnique"),
               ![r].pc = IF body.commentId # NULL THEN "findComment" ELSE "findExisting"]
  /\ UNCHANGED <<engineVars, input, output, builderVars, factoryVars, service,
                 commentTable, reactionTable, repostTable, nextId>>

\* await prisma.comment.findUnique({ where: { id: commentId } })
Reactions_FindComment(r) ==
  /\ requests[r].pc = "findComment"
  /\ requests[r].route = "POST /reactions"
  /\ LET body == Value(requests[r].body)
     IN IF FindRow(commentTable, Value(body.commentId)) = NULL
        THEN Respond(r, "comment.findUnique",
                     ErrorResponse(404, "NOT_FOUND", "Comment not found"))
        ELSE requests' = [requests EXCEPT ![r].ops = Append(@, "comment.findUnique"),
               ![r].pc = "findExisting"]
  /\ UNCHANGED <<engineVars, input, output, builderVars, factoryVars, service,
                 commentTable, reactionTable, repostTable, nextId>>

\* the lookup of the existing reaction by user and target only, whatever
\* its type
Reactions_FindExisting_AnyType(r) ==
  /\ requests[r].pc = "findExisting"
  /\ requests[r].route = "POST /reactions"
  /\ LET wanted == RequestedReaction(requests[r])
         matches == { row \in reactionTable :
                        \E type \in ReactionTypes :
                          MatchesReaction(row, [wanted EXCEPT !.type = type]) }
         existingReaction == IF matches = {} THEN NULL
                             ELSE Some(CHOOSE row \in matches : TRUE)
     IN requests' = [requests EXCEPT ![r].ops = Append(@, "reaction.findUnique"),
            ![r].found = existingReaction,
            ![r].pc = IF existingReaction # NULL THEN "delete" ELSE "create"]
  /\ UNCHANGED <<engineVars, input, output, builderVars, factoryVars, service,
                 commentTable, reactionTable, repostTable, nextId>>

\* const existingReaction = await prisma.reaction.findUnique({ where: ... })
Reactions_FindExisting(r) ==
  /\ requests[r].pc = "findExisting"
  /\ requests[r].route = "POST /reactions"
  /\ LET wanted == RequestedReaction(requests[r])
         matches == { row \in reactionTable : MatchesReaction(row, wanted) }
         existingReaction == IF matches = {} THEN NULL
                             ELSE Some(CHOOSE row \in matches : TRUE)
     IN requests' = [requests EXCEPT ![r].ops = Append(@, "reaction.findUnique"),
            ![r].found = existingReaction,
            ![r].pc = IF existingReaction # NULL THEN "delete" ELSE "create"]
  /\ UNCHANGED <<engineVars, input, output, builderVars, factoryVars, service,
                 commentTable, reactionTable, repostTable, nextId>>

\* await prisma.reaction.delete({ where: { id: existingReaction.id } }); the
\* store throws when the row is gone, and the catch block answers 500
Reactions_Delete(r) ==
  /\ requests[r].pc = "delete"
  /\ requests[r].route = "POST /reactions"
  /\ LET existingReaction == Value(requests[r].found)
     IN IF FindRow(reactionTable, existingReaction.id) = NULL
        THEN /\ Respond(r, "reaction.delete",
                  ErrorResponse(500, "INTERNAL_ERROR", "Failed to create reaction"))
             /\ UNCHANGED reactionTable
        ELSE /\ reactionTable' = { row \in reactionTable : row.id # existingReaction.id }
             /\ Respond(r, "reaction.delete",
                  SuccessResponse(200, [message |-> "Reaction removed",
                                        reaction |-> existingReaction]))
  /\ UNCHANGED <<engineVars, input, output, builderVars, factoryVars, service,
                 commentTable, repostTable, nextId>>

\* await prisma.reaction.create({ data: { type, userId, postId | commentId } });
\* the store throws when the unique key is taken, and the catch block
\* answers 500
Reactions_Create(r) ==
  /\ requests[r].pc = "create"
  /\ requests[r].route = "POST /reactions"
  /\ LET wanted == RequestedReaction(requests[r])
         reaction == [id |-> <<"reaction", nextId>>, type |-> wanted.type,
                      userId |-> wanted.userId, postId |-> wanted.postId,
                      commentId |-> wanted.commentId]
     IN IF ReactionKeyTaken(reactionTable, wanted)
        THEN /\ Respond(r, "reaction.create",
                  ErrorResponse(500, "INTERNAL_ERROR", "Failed to create reaction"))
             /\ UNCHANGED <<reactionTable, nextId>>
        ELSE /\ reactionTable' = reactionTable \cup {reaction}
             /\ nextId' = nextId + 1
             /\ Respond(r, "reaction.create", SuccessResponse(201, reaction))
  /\ UNCHANGED <<engineVars, input, output, builderVars, factoryVars, service,
                 commentTable, repostTable>>

\* the steps of POST /reactions after the session check
Reactions_POST(r) ==
  \/ Reactions_Parse(r)
  \/ Reactions_FindPost(r)
  \/ Reactions_FindComment(r)
  \/ Reactions_FindExisting(r)
  \/ Reactions_Delete(r)
  \/ Reactions_Create(r)

\* --------------------------------------------------------- POST /reposts
\* the repost a request is about
RequestedRepost(q) ==
  [postId |-> Value(Value(q.body).postId), authorId |-> Value(q.session),
   caption |-> Value(q.body).caption]

\* request.json() and repostSchema.safeParse(body): postId a string, caption
\* of at most 500 characters if there is one
Reposts_Parse(r) ==
  /\ requests[r].pc = "authorized"
  /\ requests[r].route = "POST /reposts"
  /\ LET body == Value(requests[r].body)
     IN IF body.postId = NULL
           \/ (body.caption # NULL /\ StrLength(Value(body.caption)) > 500)
        THEN Respond(r, "", ErrorResponse(400, "VALIDATION_ERROR", "Invalid input"))
        ELSE requests' = [requests EXCEPT ![r].validated = TRUE, ![r].pc = "findPost"]
  /\ UNCHANGED <<engineVars, input, output, builderVars, factoryVars, service,
                 commentTable, reactionTable, repostTable, nextId>>

\* await prisma.post.findUnique({ where: { id: postId }, include: { author } })
Reposts_FindPost(r) ==
  /\ requests[r].pc = "findPost"
  /\ requests[r].route = "POST /reposts"
  /\ IF FindPost(posts, RequestedRepost(requests[r]).postId) = NULL
     THEN Respond(r, "post.findUnique", ErrorResponse(404, "NOT_FOUND", "Post not found"))
     ELSE requests' = [requests EXCEPT ![r].ops = Append(@, "post.findUnique"),
                                       ![r].pc = "findExisting"]
  /\ UNCHANGED <<engineVars, input, output, builderVars, factoryVars, service,
                 commentTable, reactionTable, repostTable, nextId>>

\* const existingRepost = await prisma.repost.findUnique({ where:
\* { postId_authorId: { postId, authorId: session.user.id } } })
Reposts_FindExisting(r) ==
  /\ requests[r].pc = "findExisting"
  /\ requests[r].route = "POST /reposts"
  /\ LET wanted == RequestedRepost(requests[r])
     IN IF \E row \in repostTable :
             row.postId = wanted.postId /\ row.authorId = wanted.authorId
        THEN Respond(r, "repost.findUnique",
                     ErrorResponse(409, "CONFLICT", "You have already reposted this"))
        ELSE requests' = [requests EXCEPT ![r].ops = Append(@, "repost.findUnique"),
                                          ![r].pc = "create"]
  /\ UNCHANGED <<engineVars, input, output, builderVars, factoryVars, service,
                 commentTable, reactionTable, repostTable, nextId>>

\* the create on a table that takes a second row for a post and an author
Reposts_Create_NoUniqueKey(r) ==
  /\ requests[r].pc = "create"
  /\ requests[r].route = "POST /reposts"
  /\ LET wanted == RequestedRepost(requests[r])
         repost == [id |-> <<"repost", nextId>>, postId |-> wanted.postId,
                    authorId |-> wanted.authorId, caption |-> wanted.caption]
     IN /\ repostTable' = repostTable \cup {repost}
        /\ nextId' = nextId + 1
        /\ Respond(r, "repost.create", SuccessResponse(201, repost))
  /\ UNCHANGED <<engineVars, input, output, builderVars, factoryVars, service,
                 commentTable, reactionTable>>

\* await prisma.repost.create({ data: { postId, authorId, caption } }); the
\* store throws when (postId, authorId), the key findUnique looks reposts up
\* by, is taken, and the catch block answers 500
Reposts_Create(r) ==
  /\ requests[r].pc = "create"
  /\ requests[r].route = "POST /reposts"
  /\ LET wanted == RequestedRepost(requests[r])
         repost == [id |-> <<"repost", nextId>>, postId |-> wanted.postId,
                    authorId |-> wanted.authorId, caption |-> wanted.caption]
     IN IF \E row \in repostTable :
             row.postId = wanted.postId /\ row.authorId = wanted.authorId
        THEN /\ Respond(r, "repost.create",
                  ErrorResponse(500, "INTERNAL_ERROR", "Failed to create repost"))
             /\ UNCHANGED <<repostTable, nextId>>
        ELSE /\ repostTable' = repostTable \cup {repost}
             /\ nextId' = nextId + 1
             /\ Respond(r, "repost.create", SuccessResponse(201, repost))
  /\ UNCHANGED <<engineVars, input, output, builderVars, factoryVars, service,
                 commentTable, reactionTable>>

\* the steps of POST /reposts after the session check
Reposts_POST(r) ==
  \/ Reposts_Parse(r)
  \/ Reposts_FindPost(r)
  \/ Reposts_FindExisting(r)
  \/ Reposts_Create(r)

\* a post row as prisma.post.create stores it: the columns of PostService's
\* data, the id and the createdAt the store gives, and no relations yet
PostRecord(id, data, t) ==
  [id |-> id, createdAt |-> t, content |-> data.content, authorId |-> data.authorId,
   cellId |-> data.cellId, sectorId |-> data.sectorId, districtId |-> data.districtId,
   category |-> data.category, status |-> data.status, hashtags |-> data.hashtags,
   images |-> data.images,
   comments |-> <<>>, reactions |-> <<>>, reposts |-> <<>>]

\* ------------------------------------------------------------ PostService
\* One call of a PostService method at a time; its PostBuilder is the
\* builder of the model, constructed anew by each call.
TextType == <<"t", "e", "x", "t">>
ImageType == <<"i", "m", "a", "g", "e">>

\* PostFactoryCreator.getFactory("text" | "image") followed by
\* factory.createPost(input), over the factories the registry is created with
ServiceCreatePost(method, args) ==
  LET factory == factories[IF method = "createTextPost" THEN TextType ELSE ImageType]
  IN IF factory = TextFactory THEN TextPostFactory_createPost(args)
     ELSE ImagePostFactory_createPost(args)

\* createTextPost(input) / createImagePost(input) is called and awaits the
\* factory; calls are made while the post table has room
Service_Call(method, args) ==
  /\ service.pc = "idle"
  /\ Len(posts) < MaxPosts
  /\ service' = [IdleService EXCEPT !.pc = "factory", !.method = method,
                                    !.input = Some(args), !.before = Some(posts)]

\* await factory.createPost(input) settles; when it resolved, new PostBuilder()
Service_Factory ==
  /\ service.pc = "factory"
  /\ LET promise == ServiceCreatePost(service.method, Value(service.input))
     IN IF promise.rejected # NULL
        THEN /\ service' = [service EXCEPT !.pc = "rejected", !.thrown = promise.rejected]
             /\ UNCHANGED builderVars
        ELSE /\ service' = [service EXCEPT !.pc = "building", !.product = promise.resolved]
             /\ builder' = NewBuilder(<<"uuid", 1>>, 1, 2, clock)
             /\ arrays' = [ref \in {1, 2} |-> <<>>]
             /\ built' = NULL
             /\ outcome' = [op |-> "new", thrown |-> NULL]
  /\ UNCHANGED <<engineVars, input, output, factoryVars, requests,
                 commentTable, reactionTable, repostTable, nextId>>

\* the builder operation that follows op in the chain of the method, with
\* if (input.hashtags) deciding on addHashtags
NextInChain(method, args, op) ==
  LET afterStatus == IF method = "createImagePost" THEN "addImages"
                     ELSE IF args.hashtags # NULL THEN "addHashtags" ELSE "build"
  IN CASE op = "new" -> "setContent"
       [] op = "setContent" -> "setAuthorId"
       [] op = "setAuthorId" -> "setLocation"
       [] op = "setLocation" -> "setCategory"
       [] op = "setCategory" -> "setStatus"
       [] op = "setStatus" -> afterStatus
       [] op = "addImages" -> IF args.hashtags # NULL THEN "addHashtags" ELSE "build"
       [] op = "addHashtags" -> "build"
       [] OTHER -> "create"

\* the chain has come to op: every operation before it returned
ChainAt(op) ==
  /\ service.pc = "building"
  /\ outcome.thrown = NULL
  /\ NextInChain(service.method, Value(service.input), outcome.op) = op

\* new PostBuilder().setContent(...) ... .build(), one operation at a time,
\* with the values of the post the factory returned
Service_Build ==
  LET post == Value(service.product)
  IN \/ ChainAt("setContent") /\ SetContent(post.content)
     \/ ChainAt("setAuthorId") /\ SetAuthorId(post.authorId)
     \/ ChainAt("setLocation") /\ SetLocation(post.cellId, post.sectorId, post.districtId)
     \/ ChainAt("setCategory") /\ SetCategory(post.category)
     \/ ChainAt("setStatus") /\ SetStatus(post.status)
     \/ ChainAt("addImages") /\ AddImages(post.images)
     \/ ChainAt("addHashtags") /\ AddHashtags(Value(Value(service.input).hashtags))
     \/ ChainAt("build") /\ Build

\* an operation of the builder threw: the method has no try, so the call
\* rejects with what was thrown
Service_Throw ==
  /\ service.pc = "building"
  /\ outcome.thrown # NULL
  /\ service' = [service EXCEPT !.pc = "rejected", !.thrown = outcome.thrown]
  /\ UNCHANGED <<engineVars, input, output, builderVars, factoryVars, requests,
                 commentTable, reactionTable, repostTable, nextId>>

\* prisma.post.create that stores the hashtags the caller gave, not the
\* post's
Service_Create_InputHashtags ==
  /\ ChainAt("create")
  /\ \E t \in Times :
       /\ \A i \in DOMAIN posts : posts[i].createdAt <= t
       /\ LET postObject == Value(built).post
              given == Value(service.input).hashtags
              row == PostRecord(<<"post", nextId>>,
                       [content |-> postObject.content, authorId |-> postObject.authorId,
                        cellId |-> postObject.location.cellId,
                        sectorId |-> postObject.location.sectorId,
                        districtId |-> postObject.location.districtId,
                        category |-> postObject.category, status |-> postObject.status,
                        hashtags |-> IF given = NULL THEN <<>> ELSE Value(given),
                        images |-> IF service.method = "createImagePost"
                                   THEN arrays[postObject.images] ELSE <<>>],
                       t)
          IN /\ posts' = Append(posts, row)
             /\ service' = [service EXCEPT !.pc = "done", !.result = Some(row)]
  /\ nextId' = nextId + 1
  /\ UNCHANGED <<clock, instance, engines, returned, calls, kept, input, output,
                 builderVars, factoryVars, requests, commentTable, reactionTable,
                 repostTable>>

\* return await this.prisma.post.create({ data: { ...postObject } }): the row
\* gets its id and its createdAt from the store
Service_Create ==
  /\ ChainAt("create")
  /\ \E t \in Times :
       /\ \A i \in DOMAIN posts : posts[i].createdAt <= t
       /\ LET postObject == Value(built).post
              row == PostRecord(<<"post", nextId>>,
                       [content |-> postObject.content, authorId |-> postObject.authorId,
                        cellId |-> postObject.location.cellId,
                        sectorId |-> postObject.location.sectorId,
                        districtId |-> postObject.location.districtId,
                        category |-> postObject.category, status |-> postObject.status,
                        hashtags |-> arrays[postObject.hashtags],
                        images |-> IF service.method = "createImagePost"
                                   THEN arrays[postObject.images] ELSE <<>>],
                       t)
          IN /\ posts' = Append(posts, row)
             /\ service' = [service EXCEPT !.pc = "done", !.result = Some(row)]
  /\ nextId' = nextId + 1
  /\ UNCHANGED <<clock, instance, engines, returned, calls, kept, input, output,
                 builderVars, factoryVars, requests, commentTable, reactionTable,
                 repostTable>>

\* a caller of the service calls createTextPost or createImagePost itself
Service_CallDirect(method, args) ==
  /\ Service_Call(method, args)
  /\ UNCHANGED <<engineVars, input, output, builderVars, factoryVars, requests,
                 commentTable, reactionTable, repostTable, nextId>>

\* and takes what the call resolved to or rejected with
Service_Return ==
  /\ service.pc \in {"done", "rejected"}
  /\ \A r \in RequestIds : requests[r].pc # "service"
  /\ service' = IdleService
  /\ UNCHANGED <<engineVars, input, output, builderVars, factoryVars, requests,
                 commentTable, reactionTable, repostTable, nextId>>

\* the steps of a create call once it is made
Service_Steps ==
  \/ Service_Factory
  \/ Service_Build
  \/ Service_Throw
  \/ Service_Create

\* deletePost(postId, userId) is called and awaits prisma.post.findUnique
Service_DeletePost(postId, userId) ==
  /\ service.pc = "idle"
  /\ service' = [IdleService EXCEPT !.pc = "findPost", !.method = "deletePost",
                   !.input = Some([postId |-> postId, userId |-> userId]),
                   !.before = Some(posts)]
  /\ UNCHANGED <<engineVars, input, output, builderVars, factoryVars, requests,
                 commentTable, reactionTable, repostTable, nextId>>

\* the findUnique resolves; if (!post) throw new Error("Post not found");
\* if (post.authorId !== userId) throw new Error("Unauthorized")
Service_FindPost ==
  /\ service.pc = "findPost"
  /\ LET post == FindPost(posts, Value(service.input).postId)
     IN service' =
          IF post = NULL
          THEN [service EXCEPT !.pc = "rejected", !.thrown = Some("Post not found")]
          ELSE IF Value(post).authorId # Value(service.input).userId
          THEN [service EXCEPT !.pc = "rejected", !.thrown = Some("Unauthorized")]
          ELSE [service EXCEPT !.pc = "delete", !.product = post]
  /\ UNCHANGED <<engineVars, input, output, builderVars, factoryVars, requests,
                 commentTable, reactionTable, repostTable, nextId>>

\* return await this.prisma.post.delete({ where: { id: postId } }); the store
\* throws when the row is gone
Service_Delete ==
  /\ service.pc = "delete"
  /\ LET postId == Value(service.input).postId
     IN IF FindPost(posts, postId) = NULL
        THEN /\ service' = [service EXCEPT !.pc = "rejected",
                              !.thrown = Some("Record to delete does not exist")]
             /\ UNCHANGED posts
        ELSE /\ posts' = SelectSeq(posts, LAMBDA p : p.id # postId)
             /\ service' = [service EXCEPT !.pc = "done", !.result = service.product]
  /\ UNCHANGED <<clock, instance, engines, returned, calls, kept, input, output,
                 builderVars, factoryVars, requests, commentTable, reactionTable,
                 repostTable, nextId>>

\* the steps of a deletePost call once it is made
Service_DeleteSteps ==
  \/ Service_FindPost
  \/ Service_Delete

\* ------------------------------------------------------- DELETE /reposts
\* searchParams.get("id") and the test for it
Reposts_DeleteParams(r) ==
  /\ requests[r].pc = "authorized"
  /\ requests[r].route = "DELETE /reposts"
  /\ IF Value(requests[r].body).id = NULL
     THEN Respond(r, "", ErrorResponse(400, "VALIDATION_ERROR", "Repost ID is required"))
     ELSE requests' = [requests EXCEPT ![r].validated = TRUE, ![r].pc = "findRepost"]
  /\ UNCHANGED <<engineVars, input, output, builderVars, factoryVars, service,
                 commentTable, reactionTable, repostTable, nextId>>

\* the lookup that lets every user with a session through to the delete
Reposts_FindRepost_AnyUser(r) ==
  /\ requests[r].pc = "findRepost"
  /\ requests[r].route = "DELETE /reposts"
  /\ LET repost == FindRow(repostTable, Value(Value(requests[r].body).id))
     IN IF repost = NULL
        THEN Respond(r, "repost.findUnique",
                     ErrorResponse(404, "NOT_FOUND", "Repost not found"))
        ELSE requests' = [requests EXCEPT ![r].ops = Append(@, "repost.findUnique"),
                                          ![r].found = repost, ![r].pc = "delete"]
  /\ UNCHANGED <<engineVars, input, output, builderVars, factoryVars, service,
                 commentTable, reactionTable, repostTable, nextId>>

\* const repost = await prisma.repost.findUnique({ where: { id: repostId } })
\* and the tests of the row and of its author
Reposts_FindRepost(r) ==
  /\ requests[r].pc = "findRepost"
  /\ requests[r].route = "DELETE /reposts"
  /\ LET repost == FindRow(repostTable, Value(Value(requests[r].body).id))
     IN IF repost = NULL
        THEN Respond(r, "repost.findUnique",
                     ErrorResponse(404, "NOT_FOUND", "Repost not found"))
        ELSE IF Value(repost).authorId # Value(requests[r].session)
        THEN Respond(r, "repost.findUnique",
                     ErrorResponse(403, "FORBIDDEN", "Not authorized to delete this repost"))
        ELSE requests' = [requests EXCEPT ![r].ops = Append(@, "repost.findUnique"),
                                          ![r].found = repost, ![r].pc = "delete"]
  /\ UNCHANGED <<engineVars, input, output, builderVars, factoryVars, service,
                 commentTable, reactionTable, repostTable, nextId>>

\* await prisma.repost.delete({ where: { id: repostId } }); the store throws
\* when the row is gone, and the catch block answers 500
Reposts_Delete(r) ==
  /\ requests[r].pc = "delete"
  /\ requests[r].route = "DELETE /reposts"
  /\ LET repostId == Value(Value(requests[r].body).id)
     IN IF FindRow(repostTable, repostId) = NULL
        THEN /\ Respond(r, "repost.delete",
                  ErrorResponse(500, "INTERNAL_ERROR", "Failed to delete repost"))
             /\ UNCHANGED repostTable
        ELSE /\ repostTable' = { row \in repostTable : row.id # repostId }
             /\ Respond(r, "repost.delete",
                  SuccessResponse(200, [message |-> "Repost deleted"]))
  /\ UNCHANGED <<engineVars, input, output, builderVars, factoryVars, service,
                 commentTable, reactionTable, nextId>>

\* the steps of DELETE /reposts after the session check
Reposts_DELETE(r) ==
  \/ Reposts_DeleteParams(r)
  \/ Reposts_FindRepost(r)
  \/ Reposts_Delete(r)

\* -------------------------------------------------------- POST /comments
\* request.json() and validateInput(commentSchema, body): content of 1 to 500
\* characters and a postId
Comments_Parse(r) ==
  /\ requests[r].pc = "authorized"
  /\ requests[r].route = "POST /comments"
  /\ LET body == Value(requests[r].body)
     IN IF StrLength(body.content) < 1 \/ StrLength(body.content) > 500
           \/ body.postId = NULL
        THEN Respond(r, "", ErrorResponse(400, "VALIDATION_ERROR", "Invalid input"))
        ELSE requests' = [requests EXCEPT ![r].validated = TRUE, ![r].pc = "findPost"]
  /\ UNCHANGED <<engineVars, input, output, builderVars, factoryVars, service,
                 commentTable, reactionTable, repostTable, nextId>>

\* await prisma.post.findUnique({ where: { id: postId } })
Comments_FindPost(r) ==
  /\ requests[r].pc = "findPost"
  /\ requests[r].route = "POST /comments"
  /\ IF FindPost(posts, Value(Value(requests[r].body).postId)) = NULL
     THEN Respond(r, "post.findUnique", ErrorResponse(404, "NOT_FOUND", "Post not found"))
     ELSE requests' = [requests EXCEPT ![r].ops = Append(@, "post.findUnique"),
                                       ![r].pc = "create"]
  /\ UNCHANGED <<engineVars, input, output, builderVars, factoryVars, service,
                 commentTable, reactionTable, repostTable, nextId>>

\* await prisma.comment.create({ data: { content, postId, authorId } })
Comments_Create(r) ==
  /\ requests[r].pc = "create"
  /\ requests[r].route = "POST /comments"
  /\ LET comment == [id |-> <<"comment", nextId>>,
                     postId |-> Value(Value(requests[r].body).postId),
                     authorId |-> Value(requests[r].session),
                     content |-> Value(requests[r].body).content]
     IN /\ commentTable' = commentTable \cup {comment}
        /\ Respond(r, "comment.create", SuccessResponse(201, comment))
  /\ nextId' = nextId + 1
  /\ UNCHANGED <<engineVars, input, output, builderVars, factoryVars, service,
                 reactionTable, repostTable>>

\* the steps of POST /comments after the session check
Comments_POST(r) ==
  \/ Comments_Parse(r)
  \/ Comments_FindPost(r)
  \/ Comments_Create(r)

\* ----------------------------------------------------------- POST /posts
\* enum ActivityCategory, as far as the model names its values
ActivityCategories ==
  {"CLEANING", "CONSTRUCTION", "ENVIRONMENT", "HEALTH", "EDUCATION", "AGRICULTURE"}

\* const hasImages = body.images && body.images.length > 0
HasImages(body) == body.images # NULL /\ Len(Value(body.images)) > 0

\* validateInput(textPostSchema, body).success
TextPostValid(body) ==
  /\ StrLength(body.content) >= 1
  /\ StrLength(body.content) <= 5000
  /\ body.category \in ActivityCategories

\* validateInput(imagePostSchema, body).success; a url the schema refuses is ""
ImagePostValid(body) ==
  /\ TextPostValid(body)
  /\ Len(Value(body.images)) >= 1
  /\ Len(Value(body.images)) <= 5
  /\ \A i \in DOMAIN Value(body.images) : Value(body.images)[i].url # ""

\* { ...validation.data, authorId: session.user.id }: the schema gives
\* hashtags the default [] and drops the keys it does not name
ServiceInput(body, authorId, withImages) ==
  [content |-> body.content, authorId |-> authorId, cellId |-> body.cellId,
   sectorId |-> body.sectorId, districtId |-> body.districtId,
   category |-> body.category,
   hashtags |-> IF body.hashtags = NULL THEN Some(<<>>) ELSE body.hashtags,
   images |-> IF withImages THEN body.images ELSE NULL,
   status |-> NULL]

\* request.json(), the choice of the schema, the validation and the call of
\* postService.createImagePost or createTextPost
Posts_Parse(r) ==
  /\ requests[r].pc = "authorized"
  /\ requests[r].route = "POST /posts"
  /\ LET body == Value(requests[r].body)
         valid == IF HasImages(body) THEN ImagePostValid(body) ELSE TextPostValid(body)
     IN \/ /\ ~valid
           /\ Respond(r, "", ErrorResponse(400, "VALIDATION_ERROR", "Invalid input"))
           /\ UNCHANGED service
        \/ /\ valid
           /\ Service_Call(IF HasImages(body) THEN "createImagePost" ELSE "createTextPost",
                           ServiceInput(body, Value(requests[r].session), HasImages(body)))
           /\ requests' = [requests EXCEPT ![r].validated = TRUE, ![r].pc = "service"]
  /\ UNCHANGED <<engineVars, input, output, builderVars, factoryVars,
                 commentTable, reactionTable, repostTable, nextId>>

\* the awaited service call settles: 201 with the post, or the catch block
Posts_Respond(r) ==
  /\ requests[r].pc = "service"
  /\ requests[r].route = "POST /posts"
  /\ service.pc \in {"done", "rejected"}
  /\ IF service.pc = "done"
     THEN Respond(r, "post.create", SuccessResponse(201, Value(service.result)))
     ELSE IF Value(service.thrown) = "Unauthorized"
     THEN Respond(r, "", ErrorResponse(401, "UNAUTHORIZED", "Unauthorized"))
     ELSE Respond(r, "", ErrorResponse(500, "INTERNAL_ERROR", "Failed to create post"))
  /\ service' = IdleService
  /\ UNCHANGED <<engineVars, input, output, builderVars, factoryVars,
                 commentTable, reactionTable, repostTable, nextId>>

\* the steps of POST /posts after the session check, those of the service
\* call included
Posts_POST(r) ==
  \/ Posts_Parse(r)
  \/ (requests[r].pc = "service" /\ Service_Steps)
  \/ Posts_Respond(r)

\* ------------------------------------------------- GET /analytics/summary
\* the generateSummary call of a request
CallOf(r) == IF r = "r1" THEN "call1" ELSE "call2"

\* const analyticsEngine = AnalyticsEngine.getInstance(prisma)
Analytics_GetInstance(r) ==
  /\ requests[r].pc = "authorized"
  /\ requests[r].route = "GET /analytics/summary"
  /\ calls[CallOf(r)].pc = "idle"
  /\ GetInstance

\* await analyticsEngine.generateSummary(startDate, endDate): endDate is now,
\* the latest time, and startDate the given number of days before it
Analytics_GenerateSummary(r) ==
  /\ requests[r].pc = "authorized"
  /\ requests[r].route = "GET /analytics/summary"
  /\ instance # 0
  /\ GenerateSummary(CallOf(r), instance, MaxTime - Value(requests[r].body).days, MaxTime)

\* the awaited call settles: the summary, or the catch block
Analytics_Respond(r) ==
  /\ requests[r].pc = "authorized"
  /\ requests[r].route = "GET /analytics/summary"
  /\ calls[CallOf(r)].pc \in {"done", "rejected"}
  /\ IF calls[CallOf(r)].pc = "done"
     THEN Respond(r, "", SuccessResponse(200, Value(calls[CallOf(r)].result)))
     ELSE Respond(r, "", ErrorResponse(500, "INTERNAL_ERROR",
                                       "Failed to generate analytics"))
  /\ UNCHANGED <<engineVars, input, output, builderVars, factoryVars, service,
                 commentTable, reactionTable, repostTable, nextId>>

\* the steps of GET /analytics/summary after the session check
Analytics_GET(r) ==
  \/ Analytics_GetInstance(r)
  \/ Analytics_GenerateSummary(r)
  \/ (requests[r].route = "GET /analytics/summary" /\ Reads(CallOf(r)))
  \/ (requests[r].route = "GET /analytics/summary" /\ Fail(CallOf(r)))
  \/ Analytics_Respond(r)

\* the program at rest over a store that holds these rows and has given the
\* ids up to given
InitStore(db, comments, reactions, reposts, given) ==
  /\ posts = db
  /\ clock = 0
  /\ instance = 0
  /\ engines = <<>>
  /\ returned = {}
  /\ calls = [c \in CallIds |-> IdleCall]
  /\ kept = NULL
  /\ input = <<>>
  /\ output = NULL
  /\ InitBuilder
  /\ InitFactories
  /\ requests = [r \in RequestIds |-> IdleRequest]
  /\ service = IdleService
  /\ commentTable = comments
  /\ reactionTable = reactions
  /\ repostTable = reposts
  /\ nextId = given + 1

\* no request in progress, no service call, and the store has given no id
InitRoutes ==
  /\ requests = [r \in RequestIds |-> IdleRequest]
  /\ service = IdleService
  /\ nextId = 1

EmptyTables ==
  /\ commentTable = {}
  /\ reactionTable = {}
  /\ repostTable = {}

\* ------------------------------------------------------------ the stores
SeqsUpTo(rows, n) == UNION { [1..k -> rows] : k \in 0..n }

\* the post tables of up to n rows: post.create leaves createdAt to the
\* store's default now(), so the rows are in the order of their createdAt
Stores(rows, n) ==
  { s \in SeqsUpTo(rows, n) :
      \A i, j \in DOMAIN s : i < j => s[i].createdAt <= s[j].createdAt }

NoInteraction == [comments |-> <<>>, reactions |-> <<>>, reposts |-> <<>>]

\* what is attached to a post created at t: nothing, a comment, or a comment,
\* a reaction and a repost of which two came at the latest time
Interactions(t) ==
  { NoInteraction,
    [comments |-> <<t>>, reactions |-> <<>>, reposts |-> <<>>],
    [comments |-> <<MaxTime>>, reactions |-> <<t>>, reposts |-> <<MaxTime>>] }

LocationRows ==
  UNION { { PostRow(t, "CLEANING", <<>>, loc, i.comments, i.reactions, i.reposts) :
              loc \in Locations, i \in Interactions(t) } : t \in Times }

InitEngine ==
  /\ clock = 0
  /\ instance = 0
  /\ engines = <<>>
  /\ returned = {}
  /\ calls = [c \in CallIds |-> IdleCall]
  /\ kept = NULL
  /\ input = <<>>
  /\ output = NULL
  /\ InitBuilder
  /\ InitFactories
  /\ InitRoutes
  /\ EmptyTables

\* the engine as the analytics route uses it, over every store of up to
\* MaxPosts posts that differ in time, place and interactions
Init ==
  /\ posts \in Stores(LocationRows, MaxPosts)
  /\ InitEngine

Next ==
  \/ GetInstance
  \/ Step("call1")

Spec == Init /\ [][Next]_vars

\* ---------------------------------------------------------------------
\* The hashtag breakdown: stores whose posts differ in time and hashtags.
\* A post holds up to 10 distinct tags (PostBuilder.addHashtag); two of the
\* lists together carry twelve distinct tags.
TagLists ==
  { <<>>, <<"#a">>, <<"#a", "#b">>,
    <<"#t1", "#t2", "#t3", "#t4", "#t5", "#t6", "#t7", "#t8", "#t9", "#t10">>,
    <<"#t10", "#t11", "#t12">> }

HomeLocation == [cellId |-> "c1", sectorId |-> "s1", districtId |-> "d1"]

HashtagRows ==
  { PostRow(t, "CLEANING", tags, HomeLocation, <<>>, <<>>, <<>>) :
      t \in Times, tags \in TagLists }

InitHashtags ==
  /\ posts \in Stores(HashtagRows, MaxPosts)
  /\ InitEngine

SpecHashtags == InitHashtags /\ [][Next]_vars

\* ---------------------------------------------------------------------
\* The national category breakdown: stores whose posts differ in time and
\* category.
CategoryRows ==
  { PostRow(t, cat, <<>>, HomeLocation, <<>>, <<>>, <<>>) :
      t \in Times, cat \in {"CLEANING", "CONSTRUCTION"} }

InitCategories ==
  /\ posts \in Stores(CategoryRows, MaxCatPosts)
  /\ InitEngine

SpecCategories == InitCategories /\ [][Next]_vars

\* ---------------------------------------------------------------------
\* The two category rankings applied to every list of up to MaxListLen
\* categories: getCategoryStatsForLocation to the list, getCategoryStats to a
\* store that holds one post per element.
RankedCategories ==
  {"CLEANING", "CONSTRUCTION", "ENVIRONMENT", "HEALTH", "EDUCATION", "AGRICULTURE"}

StoreOf(categories) ==
  [i \in 1..Len(categories) |->
     PostRow(1, categories[i], <<>>, HomeLocation, <<>>, <<>>, <<>>)]

InitRanking ==
  /\ posts = <<>>
  /\ clock = 0
  /\ instance = 0
  /\ engines = <<>>
  /\ returned = {}
  /\ calls = [c \in CallIds |-> IdleCall]
  /\ kept = NULL
  /\ input \in SeqsUpTo(RankedCategories, MaxListLen)
  /\ output = NULL
  /\ InitBuilder
  /\ InitFactories
  /\ InitRoutes
  /\ EmptyTables

RankLocation ==
  /\ output = NULL
  /\ output' = Some([fn |-> "getCategoryStatsForLocation",
                     stats |-> getCategoryStatsForLocation(input)])
  /\ UNCHANGED <<posts, clock, instance, engines, returned, calls, kept, input, builderVars, factoryVars, routeVars>>

RankNational ==
  /\ output = NULL
  /\ output' = Some([fn |-> "getCategoryStats",
                     stats |-> getCategoryStats(StoreOf(input), 1, 1)])
  /\ UNCHANGED <<posts, clock, instance, engines, returned, calls, kept, input, builderVars, factoryVars, routeVars>>

NextRanking == RankLocation \/ RankNational

SpecRanking == InitRanking /\ [][NextRanking]_vars

\* ---------------------------------------------------------------------
\* A caller that keeps a summary and compares the later ones with it, over
\* stores whose posts carry a hashtag and a comment.
RepeatRows ==
  { PostRow(t, "CLEANING", <<"#a">>, HomeLocation, <<t>>, <<>>, <<>>) : t \in Times }

InitRepeat ==
  /\ posts \in Stores(RepeatRows, MaxPosts)
  /\ InitEngine

NextRepeat ==
  \/ GetInstance
  \/ Step("call1")
  \/ Keep("call1")

SpecRepeat == InitRepeat /\ [][NextRepeat]_vars

\* ---------------------------------------------------------------------
\* The singleton with resetInstance and handles that outlive a reset, over
\* the empty store and the stores of one post.
InitSingleton ==
  /\ posts \in { <<>> } \cup { <<row>> : row \in RepeatRows }
  /\ InitEngine

NextSingleton ==
  \/ GetInstance
  \/ ResetInstance
  \/ Step("call1")

SpecSingleton == InitSingleton /\ [][NextSingleton]_vars

\* ---------------------------------------------------------------------
\* Calls whose reads may fail, one after the other on the shared engine, over
\* the empty store and the stores of one post.
NextFailure ==
  \/ GetInstance
  \/ Step("call1")
  \/ Fail("call1")
  \/ Catch("call1")

SpecFailure == InitSingleton /\ [][NextFailure]_vars

\* ---------------------------------------------------------------------
\* Two requests at once: both calls run on the shared engine and interleave
\* at their awaits; the callers hold on to what they received.
NextConcurrent ==
  \/ GetInstance
  \/ \E c \in CallIds :
       \/ \E e \in returned, w \in Windows :
            GenerateSummary(c, e, w.startDate, w.endDate)
       \/ Reads(c)

SpecConcurrent == InitSingleton /\ [][NextConcurrent]_vars

\* ---------------------------------------------------------------------
\* One PostBuilder taken through its setters, with arguments the setters
\* accept and arguments they refuse, build and reset.
ContentInputs ==
  { <<>>, <<Run(" ", 2)>>, <<Run(" ", 1), Run("x", 19), Run(" ", 1)>>,
    <<Run("x", 5001)>> }

NextBuilder ==
  \/ SetId(<<"post", 1>>)
  \/ SetCreatedAt(1)
  \/ \E content \in ContentInputs : SetContent(content)
  \/ \E authorId \in {"", "user-123"} : SetAuthorId(authorId)
  \/ \E cellId \in {"", "cell-123"} : SetLocation(cellId, "sector-123", "district-123")
  \/ \E category \in {"", "CLEANING"} : SetCategory(category)
  \/ \E status \in {"DRAFT", PUBLISHED} : SetStatus(status)
  \/ Build
  \/ Reset

InitBuilding ==
  /\ posts = <<>>
  /\ InitEngine

SpecBuilder == InitBuilding /\ [][NextBuilder]_vars

\* ---------------------------------------------------------------------
\* The hashtag list of one builder: tags with and without the "#", the empty
\* tag, and lists of tags of which one fills nine places.
HashtagInputs == { <<"a">>, <<"#", "a">>, <<"b">>, <<>> }

NineTags ==
  [k \in 1..9 |-> <<"t", <<"1", "2", "3", "4", "5", "6", "7", "8", "9">>[k]>>]

HashtagListInputs == { NineTags, << <<"a">>, <<"#", "b">> >> }

NextBuilderHashtags ==
  \/ \E hashtag \in HashtagInputs : AddHashtag(hashtag)
  \/ \E hashtags \in HashtagListInputs : AddHashtags(hashtags)

SpecBuilderHashtags == InitBuilding /\ [][NextBuilderHashtags]_vars

\* ---------------------------------------------------------------------
\* The image list of one builder: images with and without a url, one at a
\* time and in lists.
Image(url) == [url |-> url, publicId |-> NULL, caption |-> NULL]

ImageListInputs ==
  { <<Image("https://example.com/image1.jpg"), Image("https://example.com/image2.jpg")>>,
    <<Image("https://example.com/image1.jpg"), Image("")>>,
    <<>> }

NextBuilderImages ==
  \/ \E url \in {"", "https://example.com/image.jpg"},
        caption \in {NULL, Some("Umuganda in Gisozi")} :
       AddImage(url, Some("umuganda/image"), caption)
  \/ \E images \in ImageListInputs : AddImages(images)

SpecBuilderImages == InitBuilding /\ [][NextBuilderImages]_vars

\* ---------------------------------------------------------------------
\* One PostBuilder used for one post after the other: the required fields
\* and the status with arguments the setters accept, a hashtag, a list of
\* images, build and reset.
NextReuse ==
  \/ SetContent(<<Run("x", 19)>>)
  \/ SetAuthorId("user-123")
  \/ SetLocation("cell-123", "sector-123", "district-123")
  \/ SetCategory("CLEANING")
  \/ SetStatus("DRAFT")
  \/ AddHashtag(<<"umuganda">>)
  \/ AddImages(<<Image("https://example.com/image1.jpg"),
                 Image("https://example.com/image2.jpg"),
                 Image("https://example.com/image3.jpg")>>)
  \/ Build
  \/ Reset

SpecReuse == InitBuilding /\ [][NextReuse]_vars

\* ---------------------------------------------------------------------
\* The two createPost methods applied to every combination of a content, a
\* list of images, a list of hashtags and a status, each present or absent,
\* within and beyond the limits.
ContentArgs ==
  { <<>>, <<Run(" ", 3)>>, <<Run("\n", 1), Run(" ", 5000)>>,
    <<Run("T", 1), Run("e", 1), Run("s", 1), Run("t", 1)>>,
    <<Run(" ", 1), Run("x", 12), Run(" ", 2)>>,
    <<Run("a", 5000)>>, <<Run("a", 5001)>>, <<Run(" ", 1), Run("a", 5000)>> }

RECURSIVE Repeat(_, _)
\* Array(n).fill(x)
Repeat(x, n) == IF n = 0 THEN <<>> ELSE <<x>> \o Repeat(x, n - 1)

ImagesArgs ==
  { NULL, Some(<<>>),
    Some(<<[url |-> "https://example.com/image.jpg", publicId |-> Some("public-123"),
            caption |-> NULL]>>),
    Some(Repeat(Image("https://example.com/image.jpg"), 5)),
    Some(Repeat(Image("https://example.com/image.jpg"), 6)),
    Some(<<Image("https://example.com/image.jpg"), Image("")>>),
    Some(Repeat(Image(""), 6)) }

CreationArgs ==
  { [content |-> content, authorId |-> "user-123", cellId |-> "cell-123",
     sectorId |-> "sector-123", districtId |-> "district-123",
     category |-> "CLEANING", hashtags |-> hashtags, status |-> status,
     images |-> images] :
      content \in ContentArgs, images \in ImagesArgs,
      hashtags \in {NULL, Some(<<>>), Some(<<"#umuganda">>)},
      status \in {NULL, Some("DRAFT"), Some(PUBLISHED)} }

InitCreation ==
  /\ posts = <<>>
  /\ clock = 0
  /\ instance = 0
  /\ engines = <<>>
  /\ returned = {}
  /\ calls = [c \in CallIds |-> IdleCall]
  /\ kept = NULL
  /\ input \in CreationArgs
  /\ output = NULL
  /\ InitBuilder
  /\ InitFactories
  /\ InitRoutes
  /\ EmptyTables

NextCreation == CreateTextPost \/ CreateImagePost

SpecCreation == InitCreation /\ [][NextCreation]_vars

\* ---------------------------------------------------------------------
\* The registry of factories: registrations and lookups under types written
\* in small letters, in capitals and mixed, known and unknown.
TypeNames ==
  { <<"t", "e", "x", "t">>, <<"T", "E", "X", "T">>, <<"T", "e", "x", "t">>,
    <<"i", "m", "a", "g", "e">>,
    <<"v", "i", "d", "e", "o">>, <<"V", "I", "D", "E", "O">> }

NextRegistry ==
  \/ \E postType \in TypeNames, factory \in {TextFactory, ImageFactory, OtherFactory} :
       RegisterFactory(postType, factory)
  \/ \E postType \in TypeNames : GetFactory(postType)

SpecRegistry == InitBuilding /\ [][NextRegistry]_vars

\* ---------------------------------------------------------------------
\* POST /reactions: two requests, with and without a session, on a post, on
\* a comment, on a post that does not exist, with no target and with a type
\* that does not exist, over stores that hold some reactions already.
SeedPost ==
  PostRecord(<<"post", 1>>,
             [content |-> <<Run("x", 19)>>, authorId |-> "user-1",
              cellId |-> "c1", sectorId |-> "s1", districtId |-> "d1",
              category |-> "CLEANING", status |-> PUBLISHED,
              hashtags |-> <<>>, images |-> <<>>],
             1)

SeedComment ==
  [id |-> <<"comment", 2>>, postId |-> <<"post", 1>>, authorId |-> "user-2"]

SeedReactions ==
  { [id |-> <<"reaction", 3>>, type |-> "LIKE", userId |-> "user-1",
     postId |-> Some(<<"post", 1>>), commentId |-> NULL],
    [id |-> <<"reaction", 4>>, type |-> "LIKE", userId |-> "user-2",
     postId |-> NULL, commentId |-> Some(<<"comment", 2>>)] }

Sessions == {NULL} \cup { Some(u) : u \in Users }

ReactionBodies ==
  { Some([type |-> "LIKE", postId |-> Some(<<"post", 1>>), commentId |-> NULL]),
    Some([type |-> "LOVE", postId |-> Some(<<"post", 1>>), commentId |-> NULL]),
    Some([type |-> "LIKE", postId |-> NULL, commentId |-> Some(<<"comment", 2>>)]),
    Some([type |-> "LIKE", postId |-> Some(<<"post", 9>>), commentId |-> NULL]),
    Some([type |-> "LIKE", postId |-> NULL, commentId |-> Some(<<"comment", 9>>)]),
    Some([type |-> "LIKE", postId |-> NULL, commentId |-> NULL]),
    Some([type |-> "WOW", postId |-> Some(<<"post", 1>>), commentId |-> NULL]) }

InitReactions ==
  \E seed \in SUBSET SeedReactions : InitStore(<<SeedPost>>, {SeedComment}, seed, {}, 4)

NextReactions ==
  \E r \in RequestIds :
    \/ \E session \in Sessions, body \in ReactionBodies :
         Arrive(r, "POST /reactions", session, body)
    \/ Authenticate(r)
    \/ Reactions_POST(r)

SpecReactions == InitReactions /\ [][NextReactions]_vars

\* ---------------------------------------------------------------------
\* POST /reposts: two requests at once, with and without a session, for a
\* post, with and without a caption, for a post that does not exist and with
\* bodies the schema refuses, over stores with and without a repost.
SeedReposts ==
  { [id |-> <<"repost", 2>>, postId |-> <<"post", 1>>, authorId |-> "user-1",
     caption |-> NULL] }

RepostBodies ==
  { Some([postId |-> Some(<<"post", 1>>), caption |-> NULL]),
    Some([postId |-> Some(<<"post", 1>>), caption |-> Some(<<Run("c", 500)>>)]),
    Some([postId |-> Some(<<"post", 9>>), caption |-> NULL]),
    Some([postId |-> NULL, caption |-> NULL]),
    Some([postId |-> Some(<<"post", 1>>), caption |-> Some(<<Run("c", 501)>>)]) }

InitReposts ==
  \E seed \in SUBSET SeedReposts : InitStore(<<SeedPost>>, {}, {}, seed, 2)

NextReposts ==
  \E r \in RequestIds :
    \/ \E session \in Sessions, body \in RepostBodies :
         Arrive(r, "POST /reposts", session, body)
    \/ Authenticate(r)
    \/ Reposts_POST(r)

SpecReposts == InitReposts /\ [][NextReposts]_vars

\* ---------------------------------------------------------------------
\* The six protected handlers: two requests at once, each with or without a
\* session, to any of the handlers, with bodies the handler accepts and
\* bodies it refuses, over a store with a post, a comment, a reaction and a
\* repost.
ProtectedSessions == {NULL, Some("user-1")}

TextBody(content, hashtags) ==
  Some([content |-> content, category |-> "CLEANING", cellId |-> "c1",
        sectorId |-> "s1", districtId |-> "d1", hashtags |-> hashtags,
        images |-> NULL])

\* the hashtag #c of the one letter c, as its characters
Tag(c) == <<"#", c>>

Letters == <<"a", "b", "c", "d", "e", "f", "g", "h", "i", "j", "k">>

\* the tags of the first n letters
Tags(n) == [i \in 1..n |-> Tag(Letters[i])]

ElevenTags == Tags(11)

ProtectedCalls ==
  { [route |-> "POST /posts", body |-> TextBody(<<Run("x", 19)>>, NULL)],
    [route |-> "POST /posts", body |-> TextBody(<<>>, NULL)],
    [route |-> "POST /posts", body |-> TextBody(<<Run(" ", 3)>>, NULL)],
    [route |-> "POST /posts", body |-> TextBody(<<Run("x", 19)>>, Some(ElevenTags))],
    [route |-> "POST /posts",
     body |-> Some([content |-> <<Run("x", 19)>>, category |-> "CLEANING",
                    cellId |-> "c1", sectorId |-> "s1", districtId |-> "d1",
                    hashtags |-> NULL,
                    images |-> Some(<<[url |-> "https://img/1", publicId |-> NULL,
                                       caption |-> NULL]>>)])],
    [route |-> "POST /comments",
     body |-> Some([content |-> <<Run("c", 9)>>, postId |-> Some(<<"post", 1>>)])],
    [route |-> "POST /comments",
     body |-> Some([content |-> <<>>, postId |-> Some(<<"post", 1>>)])],
    [route |-> "POST /comments",
     body |-> Some([content |-> <<Run("c", 9)>>, postId |-> Some(<<"post", 9>>)])],
    [route |-> "POST /reactions",
     body |-> Some([type |-> "LIKE", postId |-> Some(<<"post", 1>>), commentId |-> NULL])],
    [route |-> "POST /reactions",
     body |-> Some([type |-> "LIKE", postId |-> NULL,
                    commentId |-> Some(<<"comment", 2>>)])],
    [route |-> "POST /reactions",
     body |-> Some([type |-> "WOW", postId |-> Some(<<"post", 1>>), commentId |-> NULL])],
    [route |-> "POST /reposts",
     body |-> Some([postId |-> Some(<<"post", 1>>), caption |-> NULL])],
    [route |-> "POST /reposts",
     body |-> Some([postId |-> NULL, caption |-> NULL])],
    [route |-> "DELETE /reposts", body |-> Some([id |-> Some(<<"repost", 4>>)])],
    [route |-> "DELETE /reposts", body |-> Some([id |-> NULL])],
    [route |-> "GET /analytics/summary", body |-> Some([days |-> 1])] }

InitProtected ==
  InitStore(<<SeedPost>>, {SeedComment},
            { [id |-> <<"reaction", 3>>, type |-> "LIKE", userId |-> "user-1",
               postId |-> Some(<<"post", 1>>), commentId |-> NULL] },
            { [id |-> <<"repost", 4>>, postId |-> <<"post", 1>>,
               authorId |-> "user-1", caption |-> NULL] },
            4)

\* the steps of request r in whichever handler it reached
Handle(r) ==
  \/ Posts_POST(r)
  \/ Comments_POST(r)
  \/ Reactions_POST(r)
  \/ Reposts_POST(r)
  \/ Reposts_DELETE(r)
  \/ Analytics_GET(r)

NextProtected ==
  \E r \in RequestIds :
    \/ \E session \in ProtectedSessions, call \in ProtectedCalls :
         Arrive(r, call.route, session, call.body)
    \/ Authenticate(r)
    \/ Handle(r)

SpecProtected == InitProtected /\ [][NextProtected]_vars

\* ---------------------------------------------------------------------
\* PostService.createTextPost and createImagePost called one after the
\* other on an empty post table: with and without hashtags, with tags that
\* repeat and tags without the '#', with ten distinct tags and with eleven,
\* with one, five and six images, with no image and with an image without a
\* url, and with blank content.
ServiceArgs(content, hashtags, images) ==
  [content |-> content, authorId |-> "user-1", cellId |-> "c1", sectorId |-> "s1",
   districtId |-> "d1", category |-> "CLEANING", hashtags |-> hashtags,
   images |-> images, status |-> NULL]

ImageUrls ==
  <<"https://img/1", "https://img/2", "https://img/3", "https://img/4",
    "https://img/5", "https://img/6">>

\* the images of the first n urls
Images(n) == [i \in 1..n |-> Image(ImageUrls[i])]

RepeatedTags == <<Tag("a"), <<"a">>, <<"b">>, Tag("a")>>

ServiceCalls ==
  { [method |-> "createTextPost", args |-> ServiceArgs(<<Run("x", 19)>>, NULL, NULL)],
    [method |-> "createTextPost",
     args |-> ServiceArgs(<<Run("x", 19)>>, Some(RepeatedTags), NULL)],
    [method |-> "createTextPost",
     args |-> ServiceArgs(<<Run("x", 19)>>, Some(Tags(10) \o <<<<"a">>>>), NULL)],
    [method |-> "createTextPost",
     args |-> ServiceArgs(<<Run("x", 19)>>, Some(Tags(11)), NULL)],
    [method |-> "createTextPost", args |-> ServiceArgs(<<Run(" ", 3)>>, NULL, NULL)],
    [method |-> "createImagePost",
     args |-> ServiceArgs(<<Run("x", 19)>>, NULL, Some(Images(1)))],
    [method |-> "createImagePost",
     args |-> ServiceArgs(<<Run("x", 19)>>, Some(RepeatedTags), Some(Images(5)))],
    [method |-> "createImagePost",
     args |-> ServiceArgs(<<Run("x", 19)>>, Some(Tags(11)), Some(Images(1)))],
    [method |-> "createImagePost",
     args |-> ServiceArgs(<<Run("x", 19)>>, NULL, Some(Images(6)))],
    [method |-> "createImagePost",
     args |-> ServiceArgs(<<Run("x", 19)>>, NULL, Some(<<>>))],
    [method |-> "createImagePost",
     args |-> ServiceArgs(<<Run("x", 19)>>, NULL,
                          Some(<<Image("")>>))],
    [method |-> "createImagePost", args |-> ServiceArgs(<<Run("x", 19)>>, NULL, NULL)] }

InitService == InitStore(<<>>, {}, {}, {}, 0)

NextService ==
  \/ \E call \in ServiceCalls : Service_CallDirect(call.method, call.args)
  \/ Service_Steps
  \/ Service_Return

SpecService == InitService /\ [][NextService]_vars

\* ---------------------------------------------------------------------
\* calculateEngagementScore applied to the counts of a node: up to
\* MaxScorePosts posts, so that the quotient falls on halves of a hundredth
\* (8 posts), and up to MaxScoreCount comments, reactions and reposts. For
\* these counts the division and the multiplication by 100 are exact in
\* double precision or further than 1/20 from a half, so the rounding of the
\* exact quotient is the rounding the code does.
ScoreInputs ==
  [posts : 0..MaxScorePosts, comments : 0..MaxScoreCount,
   reactions : 0..MaxScoreCount, reposts : 0..MaxScoreCount]

InitScore ==
  /\ posts = <<>>
  /\ clock = 0
  /\ instance = 0
  /\ engines = <<>>
  /\ returned = {}
  /\ calls = [c \in CallIds |-> IdleCall]
  /\ kept = NULL
  /\ input \in ScoreInputs
  /\ output = NULL
  /\ InitBuilder
  /\ InitFactories
  /\ InitRoutes
  /\ EmptyTables

Score ==
  /\ output = NULL
  /\ output' = Some([fn |-> "calculateEngagementScore",
                     score |-> calculateEngagementScore(input.posts, input.comments,
                                                        input.reactions, input.reposts)])
  /\ UNCHANGED <<engineVars, input, builderVars, factoryVars, routeVars>>

NextScore == Score

SpecScore == InitScore /\ [][NextScore]_vars

\* ---------------------------------------------------------------------
\* getCategoryStatsForLocation applied to the categories of a node's posts:
\* every number of posts from 0 to MaxPerCategory for each of the six
\* categories, the posts arriving category by category or in rounds, in one
\* order of the categories or the opposite one. With six categories present
\* the list is cut, and with unequal counts the cut has to choose.
CategoryOrder ==
  <<"CLEANING", "CONSTRUCTION", "ENVIRONMENT", "HEALTH", "EDUCATION", "AGRICULTURE">>

ReverseSeq(s) == [i \in 1..Len(s) |-> s[Len(s) + 1 - i]]

\* the posts of each category one after the other
InBlocks(counts, order) ==
  Flatten([i \in 1..Len(order) |-> [k \in 1..counts[order[i]] |-> order[i]]])

\* one post of every category that has one left, round after round
InRounds(counts, order) ==
  Flatten([k \in 1..MaxPerCategory |->
             SelectSeq(order, LAMBDA c : counts[c] >= k)])

NodeCategoryLists ==
  UNION { { InBlocks(counts, CategoryOrder), InBlocks(counts, ReverseSeq(CategoryOrder)),
            InRounds(counts, CategoryOrder), InRounds(counts, ReverseSeq(CategoryOrder)) } :
          counts \in [RankedCategories -> 0..MaxPerCategory] }

InitLocationRanking ==
  /\ posts = <<>>
  /\ clock = 0
  /\ instance = 0
  /\ engines = <<>>
  /\ returned = {}
  /\ calls = [c \in CallIds |-> IdleCall]
  /\ kept = NULL
  /\ input \in NodeCategoryLists
  /\ output = NULL
  /\ InitBuilder
  /\ InitFactories
  /\ InitRoutes
  /\ EmptyTables

NextLocationRanking == RankLocation

SpecLocationRanking == InitLocationRanking /\ [][NextLocationRanking]_vars

\* ---------------------------------------------------------------------
\* generateSummary while posts come and go: one call of the engine, its
\* reads interleaved with the steps of PostService calls that create a text
\* or an image post or delete a post, over a store that starts with one
\* post or with none.
ChurnCreations ==
  { [method |-> "createTextPost", args |-> ServiceArgs(<<Run("x", 19)>>, NULL, NULL)],
    [method |-> "createTextPost",
     args |-> ServiceArgs(<<Run("x", 19)>>, Some(Tags(11)), NULL)],
    [method |-> "createImagePost",
     args |-> ServiceArgs(<<Run("x", 19)>>, NULL, Some(Images(1)))] }

InitChurn ==
  \E db \in {<<>>, <<SeedPost>>} : InitStore(db, {}, {}, {}, 1)

NextChurn ==
  \/ GetInstance
  \/ Step("call1")
  \/ \E call \in ChurnCreations : Service_CallDirect(call.method, call.args)
  \/ \E userId \in Users : Service_DeletePost(<<"post", 1>>, userId)
  \/ Service_Steps
  \/ Service_DeleteSteps
  \/ Service_Return

SpecChurn == InitChurn /\ [][NextChurn]_vars

\* ---------------------------------------------------------------------
\* Every operation of the builder that can throw, with an argument it
\* accepts and one it refuses: blank content, empty ids, an empty category,
\* tags up to and past the tenth, images with and without a url up to and
\* past the fifth, and build on a builder with and without its fields.
NextBuilderThrows ==
  \/ \E content \in {<<>>, <<Run("x", 19)>>} : SetContent(content)
  \/ \E authorId \in {"", "user-123"} : SetAuthorId(authorId)
  \/ \E cellId \in {"", "cell-123"} : SetLocation(cellId, "sector-123", "district-123")
  \/ \E category \in {"", "CLEANING"} : SetCategory(category)
  \/ \E hashtag \in {Tag("a"), Tag("k")} : AddHashtag(hashtag)
  \/ \E hashtags \in {Tags(9), <<Tag("j"), Tag("k")>>} : AddHashtags(hashtags)
  \/ \E url \in {"", "https://img/1"} : AddImage(url, NULL, NULL)
  \/ \E images \in {Images(3), <<Image("https://img/1"), Image("")>>} : AddImages(images)
  \/ Build

SpecBuilderThrows == InitBuilding /\ [][NextBuilderThrows]_vars

\* ---------------------------------------------------------------------
\* Deletions: two DELETE /reposts requests at once, without a session, by
\* the author of the repost and by another user, for the repost, for one
\* that does not exist and with no id, beside PostService.deletePost called
\* for a post by its author, by another user, and for a post that does not
\* exist.
RepostDeletions ==
  { Some([id |-> Some(<<"repost", 2>>)]), Some([id |-> Some(<<"repost", 9>>)]),
    Some([id |-> NULL]) }

InitDeletion == InitStore(<<SeedPost>>, {}, {}, SeedReposts, 2)

NextDeletion ==
  \/ \E r \in RequestIds :
       \/ \E session \in Sessions, body \in RepostDeletions :
            Arrive(r, "DELETE /reposts", session, body)
       \/ Authenticate(r)
       \/ Reposts_DELETE(r)
  \/ \E postId \in {<<"post", 1>>, <<"post", 9>>}, userId \in Users :
       Service_DeletePost(postId, userId)
  \/ Service_DeleteSteps
  \/ Service_Return

SpecDeletion == InitDeletion /\ [][NextDeletion]_vars

\* =====================================================================
\* What the claims are stated against: the store itself, read without the
\* engine's functions.
DoneCalls == { c \in CallIds : calls[c].pc = "done" }
Result(c) == Value(calls[c].result)
Range(seq) == { seq[i] : i \in DOMAIN seq }

RECURSIVE SumOver(_, _, _)
\* the number of rel rows attached to the posts at the positions in S
SumOver(S, db, rel) ==
  IF S = {} THEN 0
  ELSE LET i == CHOOSE x \in S : TRUE
       IN Len(db[i][rel]) + SumOver(S \ {i}, db, rel)

\* positions of the posts of node id (through reference ref) in the window
NodeWindow(ref, id, startDate, endDate) ==
  { i \in DOMAIN posts : /\ posts[i][ref] = id
                         /\ posts[i].createdAt >= startDate
                         /\ posts[i].createdAt <= endDate }

\* the lists of a summary with the reference each level is reached through
LevelLists(r) ==
  { [ref |-> "cellId", nodes |-> Cells, stats |-> r.cellStats],
    [ref |-> "sectorId", nodes |-> Sectors, stats |-> r.sectorStats],
    [ref |-> "districtId", nodes |-> Districts, stats |-> r.districtStats] }

\* the four numbers of the node behind entry e of level list l in summary r
NodeCounts(r, l, e) ==
  LET S == NodeWindow(l.ref, e.id, r.period.startDate, r.period.endDate)
  IN [posts |-> Cardinality(S),
      comments |-> SumOver(S, posts, "comments"),
      reactions |-> SumOver(S, posts, "reactions"),
      reposts |-> SumOver(S, posts, "reposts")]

\* C1: in every returned summary national.totalEngagement is the sum of the
\* four national totals, and every cell, sector and district entry's
\* totalEngagement is the node's in-window post count plus the comments,
\* reactions and reposts attached to those posts.
C1_TotalEngagement ==
  \A c \in DoneCalls :
    LET r == Result(c) IN
    /\ r.national.totalEngagement =
         r.national.totalPosts + r.national.totalComments
           + r.national.totalReactions + r.national.totalReposts
    /\ \A l \in LevelLists(r) : \A e \in Range(l.stats) :
         LET n == NodeCounts(r, l, e) IN
         /\ e.totalPosts = n.posts
         /\ e.totalEngagement = n.posts + n.comments + n.reactions + n.reposts

\* a summary with a cell of two posts that carry comments, a reaction and a
\* repost, and national totals that are not all zero
C1_Witness ==
  \E c \in DoneCalls :
    LET r == Result(c) IN
    /\ r.national.totalEngagement > r.national.totalPosts
    /\ r.national.totalPosts = 2
    /\ \E e \in Range(r.cellStats) :
         /\ e.totalPosts = 2
         /\ e.totalEngagement = 6

\* C4: each of cellStats, sectorStats and districtStats has exactly one entry
\* per node of its level, is sorted non-increasing by engagementScore, and a
\* node without in-window posts has score 0, totalPosts 0 and no categories.
C4_LocationLists ==
  \A c \in DoneCalls :
    LET r == Result(c) IN
    \A l \in LevelLists(r) :
      /\ Len(l.stats) = Len(l.nodes)
      /\ \A n \in Range(l.nodes) :
           Cardinality({ i \in DOMAIN l.stats : l.stats[i].id = n.id }) = 1
      /\ \A i, j \in DOMAIN l.stats :
           i < j => l.stats[i].engagementScore >= l.stats[j].engagementScore
      /\ \A e \in Range(l.stats) :
           NodeCounts(r, l, e).posts = 0 =>
             /\ e.engagementScore = 0
             /\ e.totalPosts = 0
             /\ e.topCategories = <<>>

\* a summary whose cell list was reordered by the sort (the store returns c3
\* first, c1 second) and still lists the empty cell c3
C4_Witness ==
  \E c \in DoneCalls :
    LET r == Result(c) IN
    /\ r.cellStats[1].id = "c2"
    /\ r.cellStats[2].id = "c1"
    /\ r.cellStats[2].engagementScore > 0
    /\ r.cellStats[3].id = "c3"
    /\ r.cellStats[3].totalPosts = 0

\* C5: engagementScore is (posts + 2*comments + reactions + 3*reposts) /
\* max(posts, 1) rounded to two decimals (here in hundredths, so within half a
\* hundredth of the quotient); 1 post without interactions scores 1.00,
\* 2 posts, 2 comments, 1 reaction, 1 repost score 5.00, and a node with a
\* post never scores below 1.00.
C5_EngagementScore ==
  \A c \in DoneCalls :
    LET r == Result(c) IN
    \A l \in LevelLists(r) : \A e \in Range(l.stats) :
      LET n == NodeCounts(r, l, e)
          weighted == n.posts + 2 * n.comments + n.reactions + 3 * n.reposts
          d == IF n.posts > 1 THEN n.posts ELSE 1
          h == e.engagementScore
      IN /\ 2 * h * d - 200 * weighted <= d
         /\ 200 * weighted - 2 * h * d <= d
         /\ (n.posts = 1 /\ n.comments = 0 /\ n.reactions = 0 /\ n.reposts = 0)
              => h = 100
         /\ (n.posts = 2 /\ n.comments = 2 /\ n.reactions = 1 /\ n.reposts = 1)
              => h = 500
         /\ n.posts >= 1 => h >= 100

\* a summary with a cell of 2 posts, 2 comments, 1 reaction and 1 repost,
\* scored 5.00, next to a cell that scores differently
C5_Witness ==
  \E c \in DoneCalls :
    LET r == Result(c)
        l == [ref |-> "cellId", nodes |-> Cells, stats |-> r.cellStats]
    IN \E e \in Range(r.cellStats) :
         /\ NodeCounts(r, l, e) =
              [posts |-> 2, comments |-> 2, reactions |-> 1, reposts |-> 1]
         /\ e.engagementScore = 500

\* C8: a call with startDate > endDate returns a summary with all national
\* totals 0, empty topCategories and topHashtags, and every location node
\* listed with totalPosts 0, totalEngagement 0, engagementScore 0 and no
\* categories, whatever the store holds.
C8_InvertedRange ==
  \A c \in CallIds :
    calls[c].pc \notin {"idle"} /\ calls[c].startDate > calls[c].endDate =>
      /\ calls[c].totalPosts = 0 /\ calls[c].totalComments = 0
      /\ calls[c].totalReactions = 0 /\ calls[c].totalReposts = 0
      /\ c \in DoneCalls =>
           LET r == Result(c) IN
           /\ r.national = [totalPosts |-> 0, totalComments |-> 0,
                            totalReactions |-> 0, totalReposts |-> 0,
                            totalEngagement |-> 0]
           /\ r.topCategories = <<>>
           /\ r.topHashtags = <<>>
           /\ \A l \in LevelLists(r) :
                /\ { e.id : e \in Range(l.stats) } = { n.id : n \in Range(l.nodes) }
                /\ \A e \in Range(l.stats) :
                     /\ e.totalPosts = 0 /\ e.totalEngagement = 0
                     /\ e.engagementScore = 0 /\ e.topCategories = <<>>

\* a call with an inverted range has returned over a store that holds posts
\* with comments at both ends of the range
C8_Witness ==
  \E c \in DoneCalls :
    /\ calls[c].startDate > calls[c].endDate
    /\ Len(posts) = 2
    /\ posts[1].createdAt = calls[c].endDate
    /\ posts[2].createdAt = calls[c].startDate
    /\ posts[1].comments # <<>>
    /\ posts[2].comments # <<>>

\* positions (post, place in its hashtag list) of the tag occurrences in the
\* window; of one tag when tags is a singleton
Occurrences(tags, startDate, endDate) ==
  { <<i, j>> \in (DOMAIN posts) \X (1..10) :
      /\ posts[i].createdAt >= startDate
      /\ posts[i].createdAt <= endDate
      /\ j \in DOMAIN posts[i].hashtags
      /\ posts[i].hashtags[j] \in tags }

AllTags == UNION { Range(l) : l \in TagLists }

\* C2: every topHashtags entry has percentage = round(100 * count / max(T, 1))
\* with T the number of tag occurrences in the in-window posts; '#a' three
\* times and '#b' once give [{#a, 3, 75}, {#b, 1, 25}], a lone '#a' 100.
C2_HashtagPercentage ==
  \A c \in DoneCalls :
    LET r == Result(c)
        T == Cardinality(Occurrences(AllTags, r.period.startDate, r.period.endDate))
        d == IF T > 1 THEN T ELSE 1
    IN /\ \A e \in Range(r.topHashtags) :
            /\ 2 * e.percentage * d - 200 * e.count <= d
            /\ 200 * e.count - 2 * e.percentage * d <= d
       /\ ( /\ T = 4
            /\ Cardinality(Occurrences({"#a"}, r.period.startDate, r.period.endDate)) = 3
            /\ Cardinality(Occurrences({"#b"}, r.period.startDate, r.period.endDate)) = 1 )
          => r.topHashtags =
               << [hashtag |-> "#a", count |-> 3, percentage |-> 75],
                  [hashtag |-> "#b", count |-> 1, percentage |-> 25] >>

\* C3: topHashtags has at most 10 entries, is sorted non-increasing by count,
\* holds each tag at most once, and no tag left out has a larger count than a
\* tag that is listed.
C3_TopHashtags ==
  \A c \in DoneCalls :
    LET r == Result(c)
        top == r.topHashtags
        listed == { top[i].hashtag : i \in DOMAIN top }
        Count(tag) ==
          Cardinality(Occurrences({tag}, r.period.startDate, r.period.endDate))
    IN /\ Len(top) <= 10
       /\ \A i, j \in DOMAIN top : i < j => top[i].count >= top[j].count
       /\ \A i, j \in DOMAIN top : i # j => top[i].hashtag # top[j].hashtag
       /\ \A i \in DOMAIN top : top[i].count = Count(top[i].hashtag)
       /\ \A tag \in AllTags \ listed :
            LET n == Count(tag) IN
            /\ \A i \in DOMAIN top : n <= top[i].count
            /\ n > 0 => Len(top) = 10

\* a summary over twelve distinct tags: ten are listed, the tag used twice is
\* first although it was met tenth, and two tags are left out
C3_Witness ==
  \E c \in DoneCalls :
    LET r == Result(c) IN
    /\ Len(r.topHashtags) = 10
    /\ r.topHashtags[1].hashtag = "#t10"
    /\ r.topHashtags[1].count = 2
    /\ r.topHashtags[10].count = 1
    /\ posts[1].hashtags[1] = "#t1"
    /\ Cardinality({ t \in AllTags :
          Occurrences({t}, r.period.startDate, r.period.endDate) # {} }) = 12

\* positions of the in-window posts, of one category when cats is a singleton
WindowPosts(cats, startDate, endDate) ==
  { i \in DOMAIN posts : /\ posts[i].createdAt >= startDate
                         /\ posts[i].createdAt <= endDate
                         /\ posts[i].category \in cats }

AllCategories == { posts[i].category : i \in DOMAIN posts }

FirstPosition(S) == CHOOSE i \in S : \A j \in S : i <= j

\* C6: the national topCategories has one entry per category with an
\* in-window post, with count the number of in-window posts of the category
\* and percentage = round(100 * count / max(in-window posts, 1)); it is sorted
\* descending by count, equal counts in the order of first encounter.
C6_NationalCategories ==
  \A c \in DoneCalls :
    LET r == Result(c)
        top == r.topCategories
        In(cats) == WindowPosts(cats, r.period.startDate, r.period.endDate)
        n == Cardinality(In(AllCategories))
        d == IF n > 1 THEN n ELSE 1
    IN /\ { top[i].category : i \in DOMAIN top } =
            { cat \in AllCategories : In({cat}) # {} }
       /\ \A i, j \in DOMAIN top : i # j => top[i].category # top[j].category
       /\ \A i \in DOMAIN top :
            /\ top[i].count = Cardinality(In({top[i].category}))
            /\ 2 * top[i].percentage * d - 200 * top[i].count <= d
            /\ 200 * top[i].count - 2 * top[i].percentage * d <= d
       /\ \A i, j \in DOMAIN top : i < j =>
            \/ top[i].count > top[j].count
            \/ /\ top[i].count = top[j].count
               /\ FirstPosition(In({top[i].category}))
                    < FirstPosition(In({top[j].category}))

\* a summary of three posts in which the sort moved the category met second
\* in front of the one met first
C6_Witness ==
  \E c \in DoneCalls :
    LET r == Result(c) IN
    /\ Len(posts) = 3
    /\ posts[1].category = "CLEANING"
    /\ posts[2].category = "CONSTRUCTION"
    /\ r.national.totalPosts = 3
    /\ r.topCategories =
         << [category |-> "CONSTRUCTION", count |-> 2, percentage |-> 67],
            [category |-> "CLEANING", count |-> 1, percentage |-> 33] >>

Abs(x) == IF x < 0 THEN 0 - x ELSE x

PercentSum(stats) == SumSeq([i \in 1..Len(stats) |-> stats[i].percentage])

\* C7 as stated: the percentages of every non-empty category breakdown,
\* national or of a location, sum to 100 within half the number of entries.
C7_EveryBreakdownSums ==
  output # NULL /\ Value(output).stats # <<>> =>
    2 * Abs(PercentSum(Value(output).stats) - 100) <= Len(Value(output).stats)

\* C7 amended: the percentages of the national breakdown, and of a location
\* breakdown whose posts span at most 5 categories, sum to 100 within half
\* the number of entries; a location breakdown is cut to 5 entries and then
\* sums to at most 100 plus that tolerance.
C7_UncutBreakdownSums ==
  output # NULL /\ Value(output).stats # <<>> =>
    LET stats == Value(output).stats
        uncut == \/ Value(output).fn = "getCategoryStats"
                 \/ Cardinality(Range(input)) <= 5
    IN /\ uncut => 2 * Abs(PercentSum(stats) - 100) <= Len(stats)
       /\ 2 * (PercentSum(stats) - 100) <= Len(stats)
       /\ uncut <=> Len(stats) = Cardinality(Range(input))

\* a location breakdown of six posts in five categories: five entries whose
\* percentages sum to 101
C7_Witness ==
  /\ output # NULL
  /\ Value(output).fn = "getCategoryStatsForLocation"
  /\ Len(input) = 6
  /\ Cardinality(Range(input)) = 5
  /\ Len(Value(output).stats) = 5
  /\ PercentSum(Value(output).stats) = 101

\* C9: two generateSummary calls with the same arguments against the same
\* store return summaries equal in every field but lastUpdated, whatever
\* calls ran before or in between (the store of a behaviour never changes).
C9_SameArgumentsSameSummary ==
  \A c \in DoneCalls :
    ( /\ kept # NULL
      /\ Value(kept).startDate = calls[c].startDate
      /\ Value(kept).endDate = calls[c].endDate )
    => WithoutLastUpdated(Result(c)) = WithoutLastUpdated(Value(kept).summary)

\* a later call, made after the clock moved, has returned for the arguments
\* of the kept summary, which counted a post and its hashtag
C9_Witness ==
  \E c \in DoneCalls :
    /\ kept # NULL
    /\ Value(kept).startDate = calls[c].startDate
    /\ Value(kept).endDate = calls[c].endDate
    /\ Value(kept).summary.lastUpdated < Result(c).lastUpdated
    /\ Value(kept).summary.national.totalPosts > 0
    /\ Value(kept).summary.topHashtags # <<>>

C11_ReadFailurePropagates ==
  \A c \in CallIds :
    LET call == calls[c]
    IN /\ call.raised # NULL =>
            /\ call.pc = "rejected"
            /\ call.error = Some(Value(call.raised).error)
            /\ call.result = NULL
            /\ call.issued = SubSeq(ReadOrder, 1, Len(call.issued))
            /\ call.issued[Len(call.issued)] = Value(call.raised).read
       /\ call.pc = "rejected" => call.raised # NULL /\ call.result = NULL
       /\ call.pc = "done" => call.raised = NULL /\ call.issued = ReadOrder

\* the hashtag fetch failed with a timeout after the five reads before it
C11_Witness ==
  /\ calls["call1"].pc = "rejected"
  /\ calls["call1"].error = Some("timeout")
  /\ Len(calls["call1"].issued) = 6
  /\ Value(calls["call1"].raised).read = "post.findMany(hashtags)"

\* ---------------------------------------------------------------------
\* C12: getLastUpdated() is null on a new engine and changes only in the
\* step in which a generateSummary call on that engine completes
\* successfully; it then equals the lastUpdated of the summary that call
\* returns and is not earlier than the value it replaces.  Every other step,
\* a failing read included, leaves it unchanged.
C12_LastUpdatedFollowsSuccess ==
  /\ engines = <<>>
  /\ [][ \A e \in 1..Len(engines') :
           IF e > Len(engines)
           THEN getLastUpdated(e)' = NULL
           ELSE LET completed == { c \in CallIds : /\ calls[c].pc # "done"
                                                   /\ calls'[c].pc = "done"
                                                   /\ calls'[c].engine = e }
                IN IF completed = {}
                   THEN getLastUpdated(e)' = getLastUpdated(e)
                   ELSE \E c \in completed :
                          /\ getLastUpdated(e)' =
                               Some(Value(calls'[c].result).lastUpdated)
                          /\ getLastUpdated(e) # NULL =>
                               Value(getLastUpdated(e)) <= Value(getLastUpdated(e)')
       ]_vars
  /\ [](\A c \in CallIds :
          calls[c].pc = "done" => getLastUpdated(calls[c].engine) # NULL)

\* a call was rejected after an earlier one had succeeded at clock reading 1
C12_Witness ==
  /\ calls["call1"].pc = "rejected"
  /\ Len(engines) = 1
  /\ getLastUpdated(1) = Some(1)

\* ---------------------------------------------------------------------
\* C13: with two generateSummary calls interleaved at their awaits on the
\* shared engine over an unchanged store, each call returns, apart from
\* lastUpdated, the summary the same arguments give when run alone; the
\* lastUpdated of a returned summary is the clock reading taken in the step
\* that returns it; and getLastUpdated() is null while no call has
\* completed and otherwise the lastUpdated of a completed call.
C13_ConcurrentCallsIndependent ==
  /\ [](\A c \in DoneCalls :
          WithoutLastUpdated(Result(c)) =
            WithoutLastUpdated(RunAlone(posts, calls[c].startDate, calls[c].endDate, 0)))
  /\ [][ \A c \in CallIds :
           (calls[c].pc # "done" /\ calls'[c].pc = "done") =>
              Value(calls'[c].result).lastUpdated = clock' ]_vars
  /\ [](\A e \in 1..Len(engines) :
          LET completed == { c \in DoneCalls : calls[c].engine = e }
          IN IF completed = {}
             THEN getLastUpdated(e) = NULL
             ELSE \E c \in completed : getLastUpdated(e) = Some(Result(c).lastUpdated))

\* both calls have returned, for different periods, with different summaries
\* and different timestamps, the second call to start being the first to end
C13_Witness ==
  /\ DoneCalls = CallIds
  /\ posts # <<>>
  /\ Result("call1").national.totalPosts = 1
  /\ Result("call2").national.totalPosts = 0
  /\ Result("call2").lastUpdated < Result("call1").lastUpdated
  /\ getLastUpdated(1) = Some(Result("call1").lastUpdated)

\* ---------------------------------------------------------------------
\* the four required fields that a builder lacks, in the order of validate
MissingFields(b) ==
  SelectSeq(<<"content", "author", "location", "category">>,
            LAMBDA f : \/ f = "content" /\ b.content = <<>>
                       \/ f = "author" /\ b.authorId = ""
                       \/ f = "location" /\ b.location = NULL
                       \/ f = "category" /\ b.category = NULL)

RequiredMessage(f) ==
  CASE f = "content" -> "Post content is required"
    [] f = "author" -> "Author ID is required"
    [] f = "location" -> "Post location is required"
    [] f = "category" -> "Post category is required"

\* the setter of each required field
SetterOf(f) ==
  CASE f = "content" -> "setContent"
    [] f = "author" -> "setAuthorId"
    [] f = "location" -> "setLocation"
    [] f = "category" -> "setCategory"

\* C14: a required field is present exactly when its setter has succeeded
\* since construction or the last reset (only the setter fills it, only
\* reset empties it); build() returns a Post exactly when none of the
\* four is missing and otherwise throws the message of the first missing
\* one in the order content, author, location, category, returning no Post;
\* the status is PUBLISHED unless setStatus changed it since construction or
\* the last reset, and the Post carries the builder's status.
C14_BuildRequiresFields ==
  /\ [][ /\ \A f \in {"content", "author", "location", "category"} :
              LET was == Includes(MissingFields(builder), f)
                  is == Includes(MissingFields(builder'), f)
              IN /\ (was /\ ~is) =>
                      outcome' = [op |-> SetterOf(f), thrown |-> NULL]
                 /\ (~was /\ is) => outcome'.op = "reset"
                 /\ outcome' = [op |-> SetterOf(f), thrown |-> NULL] => ~is
         /\ outcome'.op = "reset" => /\ Len(MissingFields(builder')) = 4
                                     /\ builder'.status = PUBLISHED
         /\ builder'.status # builder.status => outcome'.op \in {"setStatus", "reset"}
         /\ (outcome'.op = "build" /\ outcome'.thrown # NULL) => built' = built
       ]_vars
  /\ [](outcome.op = "build" =>
          IF MissingFields(builder) = <<>>
          THEN /\ outcome.thrown = NULL
               /\ built # NULL
               /\ Value(built).post.content = builder.content
               /\ Value(built).post.authorId = builder.authorId
               /\ Value(built).post.location = Value(builder.location)
               /\ Value(built).post.category = Value(builder.category)
               /\ Value(built).post.status = builder.status
          ELSE outcome.thrown = Some(RequiredMessage(MissingFields(builder)[1])))
  /\ builder.status = PUBLISHED

\* build() threw for the location while the category was missing as well
C14_Witness ==
  /\ outcome = [op |-> "build", thrown |-> Some("Post location is required")]
  /\ MissingFields(builder) = <<"location", "category">>
  /\ built # NULL

\* ---------------------------------------------------------------------
\* the builder's hashtag list
HashtagList == arrays[builder.hashtags]

\* a tag as the list holds it: with one "#" in front unless it has one
WithHash(tag) == IF tag # <<>> /\ tag[1] = "#" THEN tag ELSE <<"#">> \o tag

\* C15: the hashtag list never has more than 10 entries, every entry starts
\* with "#", none occurs twice, and entries are only ever added at the end;
\* addHashtag of a tag already in the list (with or without the "#")
\* changes nothing and does not throw, whatever the length; addHashtag of
\* a new tag appends it with its "#" when the list has fewer than 10 entries
\* and throws 'Maximum 10 hashtags allowed per post' when it has 10;
\* addHashtags adds nothing but the tags it is given, and throws that same
\* message only on a list that is then full.
C15_HashtagList ==
  /\ [](/\ Len(HashtagList) <= 10
        /\ \A i \in DOMAIN HashtagList :
             /\ HashtagList[i] # <<>> /\ HashtagList[i][1] = "#"
             /\ \A j \in DOMAIN HashtagList : HashtagList[i] = HashtagList[j] => i = j)
  /\ [][ /\ Len(HashtagList) <= Len(HashtagList')
         /\ SubSeq(HashtagList', 1, Len(HashtagList)) = HashtagList
         /\ outcome'.op = "addHashtag" =>
              LET tag == WithHash(outcome'.hashtag)
              IN IF \E i \in DOMAIN HashtagList : HashtagList[i] = tag
                 THEN HashtagList' = HashtagList /\ outcome'.thrown = NULL
                 ELSE IF Len(HashtagList) = 10
                 THEN /\ HashtagList' = HashtagList
                      /\ outcome'.thrown = Some("Maximum 10 hashtags allowed per post")
                 ELSE /\ HashtagList' = Append(HashtagList, tag)
                      /\ outcome'.thrown = NULL
         /\ outcome'.op = "addHashtags" =>
              /\ \A i \in DOMAIN HashtagList' :
                   i > Len(HashtagList) =>
                     \E k \in DOMAIN outcome'.hashtags :
                        HashtagList'[i] = WithHash(outcome'.hashtags[k])
              /\ IF \A k \in DOMAIN outcome'.hashtags :
                      \/ \E i \in DOMAIN HashtagList' :
                           HashtagList'[i] = WithHash(outcome'.hashtags[k])
                 THEN outcome'.thrown = NULL
                 ELSE /\ outcome'.thrown = Some("Maximum 10 hashtags allowed per post")
                      /\ Len(HashtagList') = 10
       ]_vars

\* the list is full, "#a" is in it, and addHashtag("b") has thrown
C15_Witness ==
  /\ Len(HashtagList) = 10
  /\ HashtagList[1] = <<"#", "a">>
  /\ outcome = [op |-> "addHashtag", hashtag |-> <<"b">>,
                thrown |-> Some("Maximum 10 hashtags allowed per post")]

\* ---------------------------------------------------------------------
\* the builder's image list
ImageList == arrays[builder.images]

\* C16: the image list never has more than 5 entries and every entry has a
\* non-empty url.  addImage with an empty url throws 'Image URL is required';
\* with a url it throws 'Maximum 5 images allowed per post' when the list
\* has 5 entries and otherwise appends an image with that url.  addImages
\* throws 'Maximum 5 images allowed per post' when the list and the given
\* images together are more than 5, throws as well when one of the given
\* images has no url, and otherwise appends them all.  A call that throws
\* leaves the list as it was.
C16_ImageList ==
  /\ [](/\ Len(ImageList) <= 5
        /\ \A i \in DOMAIN ImageList : ImageList[i].url # "")
  /\ [][ /\ outcome'.op = "addImage" =>
              IF outcome'.url = ""
              THEN /\ outcome'.thrown = Some("Image URL is required")
                   /\ ImageList' = ImageList
              ELSE IF Len(ImageList) + 1 > 5
              THEN /\ outcome'.thrown = Some("Maximum 5 images allowed per post")
                   /\ ImageList' = ImageList
              ELSE /\ outcome'.thrown = NULL
                   /\ Len(ImageList') = Len(ImageList) + 1
                   /\ SubSeq(ImageList', 1, Len(ImageList)) = ImageList
                   /\ ImageList'[Len(ImageList')].url = outcome'.url
         /\ outcome'.op = "addImages" =>
              IF Len(ImageList) + Len(outcome'.images) > 5
              THEN /\ outcome'.thrown = Some("Maximum 5 images allowed per post")
                   /\ ImageList' = ImageList
              ELSE IF \E k \in DOMAIN outcome'.images : outcome'.images[k].url = ""
              THEN /\ outcome'.thrown # NULL
                   /\ ImageList' = ImageList
              ELSE /\ outcome'.thrown = NULL
                   /\ ImageList' = ImageList \o outcome'.images
       ]_vars

\* addImages of two images has thrown on a list of four, which stayed at four
C16_Witness ==
  /\ Len(ImageList) = 4
  /\ outcome.op = "addImages"
  /\ Len(outcome.images) = 2
  /\ outcome.thrown = Some("Maximum 5 images allowed per post")

\* ---------------------------------------------------------------------
\* a builder as construction leaves it, its id and createdAt apart
InInitialState(b) ==
  /\ b.content = <<>>
  /\ b.authorId = ""
  /\ b.location = NULL
  /\ b.category = NULL
  /\ b.status = PUBLISHED
  /\ arrays[b.hashtags] = <<>>
  /\ arrays[b.images] = <<>>

\* C17: after reset(), whatever came before, the builder is in its initial
\* state (content and authorId empty, location and category unset, status
\* PUBLISHED, both lists empty) and shares no list with the post built
\* before; a build() directly after reset() throws and returns no post.
C17_ResetToInitialState ==
  /\ [](outcome.op = "reset" =>
          /\ InInitialState(builder)
          /\ builder.hashtags \notin PostRefs
          /\ builder.images \notin PostRefs
          /\ builder.hashtags # builder.images)
  /\ [][ (outcome.op = "reset" /\ outcome'.op = "build") =>
            /\ outcome'.thrown # NULL
            /\ built' = built ]_vars

\* a DRAFT post with a hashtag and three images was built, the builder was
\* reset, and the build() that followed threw
C17_Witness ==
  /\ built # NULL
  /\ Value(built).post.status = "DRAFT"
  /\ Len(Value(built).hashtags) = 1
  /\ Len(Value(built).images) = 3
  /\ InInitialState(builder)
  /\ outcome = [op |-> "build", thrown |-> Some("Post content is required")]

\* ---------------------------------------------------------------------
\* C18 (as stated): once build() has returned a Post, no later operation on
\* the builder changes it: its hashtags and images lists still hold what
\* they held when it was returned.
C18_PostUnchangedByBuilder ==
  built # NULL =>
    /\ arrays[Value(built).post.hashtags] = Value(built).hashtags
    /\ arrays[Value(built).post.images] = Value(built).images

\* ---------------------------------------------------------------------
\* a content that is empty or holds white space only
IsEmptyContent(content) == \A i \in DOMAIN content : content[i].ch \in {" ", "\t", "\n"}

\* the number of characters of a content
RECURSIVE CharCount(_)
CharCount(content) ==
  IF content = <<>> THEN 0 ELSE Head(content).n + CharCount(Tail(content))

\* what is wrong with the arguments of createPost, in the order in which it
\* is reported; the last three concern image posts only
Defects(args, withImages) ==
  LET n == IF args.images = NULL THEN 0 ELSE Len(Value(args.images))
  IN SelectSeq(
       << "Post content cannot be empty",
          "Post content exceeds maximum length (5000 characters)",
          "Image post must have at least 1 image(s)",
          "Image post cannot exceed 5 images",
          "All images must have valid URLs" >>,
       LAMBDA m :
         \/ m = "Post content cannot be empty" /\ IsEmptyContent(args.content)
         \/ m = "Post content exceeds maximum length (5000 characters)"
              /\ CharCount(args.content) > 5000
         \/ withImages /\ m = "Image post must have at least 1 image(s)" /\ n = 0
         \/ withImages /\ m = "Image post cannot exceed 5 images" /\ n > 5
         \/ withImages /\ m = "All images must have valid URLs"
              /\ \E i \in 1..n : Value(args.images)[i].url = "")

\* C19: createPost of the text and of the image factory resolves exactly
\* when nothing is wrong with its arguments (content not empty or white
\* space only, at most 5000 characters; for an image post 1 to 5 images,
\* each with a url) and otherwise rejects with the message of the first
\* thing wrong; the post it resolves to carries the given fields, the given
\* status or PUBLISHED, the given hashtags or [], and for an image post the
\* given images.
C19_FactoriesValidate ==
  output # NULL =>
    LET withImages == Value(output).fn = "ImagePostFactory.createPost"
        promise == Value(output).promise
        defects == Defects(input, withImages)
    IN IF defects # <<>>
       THEN promise.resolved = NULL /\ promise.rejected = Some(defects[1])
       ELSE /\ promise.rejected = NULL
            /\ promise.resolved # NULL
            /\ LET post == Value(promise.resolved)
               IN /\ \A f \in {"content", "authorId", "cellId", "sectorId",
                              "districtId", "category"} : post[f] = input[f]
                  /\ post.status = IF input.status = NULL THEN "PUBLISHED"
                                   ELSE Value(input.status)
                  /\ post.hashtags = IF input.hashtags = NULL THEN <<>>
                                     ELSE Value(input.hashtags)
                  /\ withImages => post.images = Value(input.images)

\* an image post with six images, no status and no hashtags was refused
C19_Witness ==
  /\ output # NULL
  /\ Value(output).fn = "ImagePostFactory.createPost"
  /\ input.images # NULL
  /\ Len(Value(input.images)) = 6
  /\ input.content = <<Run("a", 5000)>>
  /\ Value(output).promise.rejected = Some("Image post cannot exceed 5 images")

\* ---------------------------------------------------------------------
\* the capital of each small letter that occurs in a type
CapitalOf(ch) ==
  CASE ch = "t" -> "T" [] ch = "e" -> "E" [] ch = "x" -> "X" [] ch = "i" -> "I"
    [] ch = "m" -> "M" [] ch = "a" -> "A" [] ch = "g" -> "G" [] ch = "v" -> "V"
    [] ch = "d" -> "D" [] ch = "o" -> "O" [] OTHER -> ch

\* two types that differ at most in the case of their letters
SameType(a, b) ==
  /\ Len(a) = Len(b)
  /\ \A i \in DOMAIN a : a[i] = b[i] \/ CapitalOf(a[i]) = b[i] \/ a[i] = CapitalOf(b[i])

\* C20: getFactory(t) returns the factory of the latest registerFactory call
\* made before it under a type that equals t up to case; if there is none
\* it returns the initial text factory for a t that equals 'text' up to case
\* and the initial image factory for 'image'; for every other t it throws
\* 'Unknown post type: <t>' with t as given.  getFactory leaves the registry
\* as it was.
C20_RegistryLookup ==
  /\ [](output # NULL =>
          LET t == Value(output).postType
              promise == Value(output).promise
              made == { i \in 1..Value(output).after :
                          SameType(registrations[i].postType, t) }
          IN IF made # {}
             THEN promise = Resolved(registrations[
                                CHOOSE i \in made : \A j \in made : j <= i].factory)
             ELSE IF SameType(t, <<"t", "e", "x", "t">>)
             THEN promise = Resolved(TextFactory)
             ELSE IF SameType(t, <<"i", "m", "a", "g", "e">>)
             THEN promise = Resolved(ImageFactory)
             ELSE promise = Rejected(<<"Unknown post type: ", t>>))
  /\ [][ output' # output =>
           factories' = factories /\ registrations' = registrations ]_vars

\* a caller's factory was registered as 'Text' and later one as 'video';
\* getFactory('TEXT') then returned the caller's factory
C20_Witness ==
  /\ Len(registrations) = 2
  /\ registrations[1] = [postType |-> <<"T", "e", "x", "t">>, factory |-> OtherFactory]
  /\ registrations[2].postType = <<"v", "i", "d", "e", "o">>
  /\ output # NULL
  /\ Value(output).postType = <<"T", "E", "X", "T">>
  /\ Value(output).after = 2
  /\ Value(output).promise = Resolved(OtherFactory)

\* ---------------------------------------------------------------------
ReactionKeys(table) == { ReactionKey(row) : row \in table }

Answered(r) == requests[r].pc = "answered"

StatusOf(r) == Value(requests[r].response).status

\* no other request was in progress while r was: each other request was
\* answered before r arrived, arrived after r was answered, or was not made
RanAlone(r) ==
  \A q \in RequestIds \ {r} :
    requests[q].pc = "idle" \/ q \in requests[r].after \/ r \in requests[q].after

\* r is the request answered last, and none is in progress
AnsweredLast(r) ==
  \A q \in RequestIds \ {r} : requests[q].pc = "idle" \/ q \in requests[r].after

\* a request with a session for one reaction type on one target that exists
ReactionAsked(r) ==
  /\ requests[r].route = "POST /reactions"
  /\ requests[r].session # NULL
  /\ LET body == Value(requests[r].body)
     IN /\ body.type \in ReactionTypes
        /\ (body.postId = NULL) # (body.commentId = NULL)
        /\ body.postId # NULL => \E i \in DOMAIN posts : posts[i].id = Value(body.postId)
        /\ body.commentId # NULL =>
             \E row \in commentTable : row.id = Value(body.commentId)

\* C21: POST /reactions is a toggle per (user, target, type).  A request
\* handled with no other in progress is answered 201 and adds the reaction
\* when the user had none of that type on that target, and is answered 200
\* 'Reaction removed' and deletes it otherwise; two identical requests one
\* after the other leave the reactions as they were; and no two rows of the
\* store ever share user, target and type.
C21_ReactionToggle ==
  /\ \A a, b \in reactionTable : ReactionKey(a) = ReactionKey(b) => a = b
  /\ \A r \in RequestIds :
       Answered(r) /\ ReactionAsked(r) /\ RanAlone(r) =>
         LET key == ReactionKey(RequestedReaction(requests[r]))
             before == ReactionKeys(Value(requests[r].seen).reactions)
         IN /\ IF key \in before
               THEN /\ StatusOf(r) = 200
                    /\ Value(requests[r].response).data.message = "Reaction removed"
               ELSE StatusOf(r) = 201
            /\ AnsweredLast(r) =>
                 ReactionKeys(reactionTable) =
                   IF key \in before THEN before \ {key} ELSE before \cup {key}
  /\ \A r1, r2 \in RequestIds :
       /\ Answered(r1) /\ Answered(r2) /\ r1 \in requests[r2].after
       /\ ReactionAsked(r1)
       /\ requests[r2].route = requests[r1].route
       /\ requests[r2].session = requests[r1].session
       /\ requests[r2].body = requests[r1].body
       => /\ ReactionKeys(reactionTable) = ReactionKeys(Value(requests[r1].seen).reactions)
          /\ {StatusOf(r1), StatusOf(r2)} = {200, 201}

\* the same request twice, one after the other: the first created the
\* reaction and the second removed it
C21_Witness ==
  /\ Answered("r1") /\ Answered("r2") /\ "r1" \in requests["r2"].after
  /\ ReactionAsked("r1")
  /\ requests["r2"].session = requests["r1"].session
  /\ requests["r2"].body = requests["r1"].body
  /\ StatusOf("r1") = 201
  /\ StatusOf("r2") = 200
  /\ Value(requests["r1"].seen).reactions # {}
  /\ reactionTable = Value(requests["r1"].seen).reactions

\* ---------------------------------------------------------------------
\* a request with a session and a body the schema accepts
RepostAsked(r) ==
  /\ requests[r].route = "POST /reposts"
  /\ requests[r].session # NULL
  /\ Value(requests[r].body).postId # NULL
  /\ Value(requests[r].body).caption # NULL =>
       StrLength(Value(Value(requests[r].body).caption)) <= 500

\* the user of r had a repost of the post when the request was made
HadRepost(r) ==
  \E row \in Value(requests[r].seen).reposts :
    /\ row.postId = RequestedRepost(requests[r]).postId
    /\ row.authorId = RequestedRepost(requests[r]).authorId

Unauthenticated(r) == requests[r].pc # "idle" /\ requests[r].session = NULL

\* the tables as InitProtected sets them up
StoreUntouched ==
  /\ posts = <<SeedPost>>
  /\ commentTable = {SeedComment}
  /\ Cardinality(reactionTable) = 1
  /\ Cardinality(repostTable) = 1
  /\ \A row \in reactionTable : row.id = <<"reaction", 3>>
  /\ \A row \in repostTable : row.id = <<"repost", 4>>
  /\ nextId = 5

\* C23: a request without a session to POST /posts, POST /comments,
\* POST /reactions, POST /reposts, DELETE /reposts or GET /analytics/summary
\* is answered 401 before its body is validated; it reads and writes nothing
\* in the store and makes no engine: every store operation, service call,
\* generateSummary call and engine present is that of a request with a
\* session.
C23_UnauthenticatedRejected ==
  /\ \A r \in RequestIds :
       Unauthenticated(r) =>
         /\ requests[r].pc \in {"auth", "answered"}
         /\ requests[r].validated = FALSE
         /\ requests[r].ops = <<>>
         /\ calls[CallOf(r)] = IdleCall
         /\ Answered(r) =>
              /\ StatusOf(r) = 401
              /\ Value(requests[r].response).code = "UNAUTHORIZED"
  /\ engines # <<>> =>
       \E r \in RequestIds :
         /\ requests[r].route = "GET /analytics/summary"
         /\ requests[r].session # NULL
         /\ requests[r].pc \in {"authorized", "answered"}
  /\ service.pc # "idle" =>
       \E r \in RequestIds :
         /\ requests[r].route = "POST /posts"
         /\ requests[r].session # NULL
         /\ requests[r].pc = "service"
  /\ (\A r \in RequestIds : requests[r].session = NULL) => StoreUntouched

\* a request without a session whose body the schema refuses was answered
\* 401 while a request with a session was in progress, which created a post
C23_Witness ==
  \E r1, r2 \in RequestIds :
    /\ Unauthenticated(r1) /\ Answered(r1) /\ StatusOf(r1) = 401
    /\ requests[r1].route = "POST /posts"
    /\ Value(requests[r1].body).content = <<>>
    /\ r2 \notin requests[r1].after /\ r1 \notin requests[r2].after
    /\ requests[r2].route = "POST /posts" /\ Answered(r2) /\ StatusOf(r2) = 201

\* the hashtags of a stored post: at most 10, each beginning with '#', no
\* two the same
HashtagsStored(row) ==
  /\ Len(row.hashtags) <= 10
  /\ \A i \in DOMAIN row.hashtags : StartsWithHash(row.hashtags[i])
  /\ \A i, j \in DOMAIN row.hashtags : row.hashtags[i] = row.hashtags[j] => i = j

\* C24: every post persisted through PostService.createTextPost or
\* createImagePost has at most 10 hashtags, each beginning with '#' and
\* pairwise distinct; an image post is persisted with 1 to 5 images; a call
\* the factory or the builder rejects creates no post record, and a call
\* that resolves creates exactly the row it returns.
C24_PersistedPosts ==
  /\ \A i \in DOMAIN posts : HashtagsStored(posts[i]) /\ Len(posts[i].images) <= 5
  /\ service.pc = "done" =>
       /\ posts = Append(Value(service.before), Value(service.result))
       /\ service.method = "createImagePost" =>
            /\ Len(Value(service.result).images) >= 1
            /\ Len(Value(service.result).images) <= 5
       /\ service.method = "createTextPost" => Value(service.result).images = <<>>
  /\ service.pc \in {"factory", "building", "rejected"} =>
       posts = Value(service.before)

\* an image post given five images and four tags, of which two repeat and
\* two lack the '#', was persisted with the five images and two tags
C24_Witness ==
  /\ service.pc = "done"
  /\ service.method = "createImagePost"
  /\ Len(posts) = 1
  /\ Len(posts[1].images) = 5
  /\ posts[1].hashtags = <<Tag("a"), Tag("b")>>
  /\ Value(service.input).hashtags = Some(RepeatedTags)
  /\ nextId = 2

\* the weighted sum of the counts the score was computed from
WeightedSum == input.posts + 2 * input.comments + input.reactions + 3 * input.reposts

\* 100 * weightedSum / max(posts, 1) lies halfway between two integers
ScoreHalfway ==
  LET d == IF input.posts > 1 THEN input.posts ELSE 1
  IN (200 * WeightedSum) % d = 0 /\ ((200 * WeightedSum) \div d) % 2 = 1

\* the score was computed; in hundredths
Scored == output # NULL /\ Value(output).fn = "calculateEngagementScore"

\* C25 as stated: whenever 100 * weightedSum / max(posts, 1) lies halfway
\* between two integers, the score is the neighbouring hundredth whose last
\* digit is even (8 posts and 1 reaction, 112.5: 1.12).
C25_HalfToEven ==
  Scored /\ ScoreHalfway =>
    LET d == IF input.posts > 1 THEN input.posts ELSE 1
        h == Value(output).score
    IN /\ h % 2 = 0
       /\ (2 * h * d = 200 * WeightedSum + d \/ 2 * h * d = 200 * WeightedSum - d)

\* C25, amended: the rounding is that of Math.round, halves up: whenever the
\* value (weightedSum / max(posts, 1)) * 100 the code computes lies halfway
\* between two integers (for the counts here: whenever the exact quotient
\* does), the score is the upper of the two neighbouring hundredths, even or
\* odd (8 posts and 1 reaction, 112.5: 1.13; 8 posts and 1 repost, 137.5:
\* 1.38).
C25_HalfUp ==
  Scored /\ ScoreHalfway =>
    LET d == IF input.posts > 1 THEN input.posts ELSE 1
    IN 2 * Value(output).score * d = 200 * WeightedSum + d

\* the score of 8 posts and 1 reaction is 1.13
C25_Witness ==
  /\ Scored
  /\ input = [posts |-> 8, comments |-> 0, reactions |-> 1, reposts |-> 0]
  /\ ScoreHalfway
  /\ Value(output).score = 113

\* the number of the node's posts of category c
PostsOfCategory(c) == Cardinality({ i \in DOMAIN input : input[i] = c })

\* getCategoryStatsForLocation was applied to input
LocationRanked == output # NULL /\ Value(output).fn = "getCategoryStatsForLocation"

\* C26: the topCategories of a location node has at most 5 entries, is
\* sorted descending by count, lists the node's most frequent categories with
\* their counts (no category left out has more posts than a listed one, and
\* none is left out while there is room), and the percentage of an entry is
\* 100 * count / max(number of the node's posts, 1) rounded to the nearest
\* integer, the posts of the categories left out included in the number.
C26_LocationTopCategories ==
  LocationRanked =>
    LET stats == Value(output).stats
        total == IF Len(input) > 1 THEN Len(input) ELSE 1
        listed == { stats[i].category : i \in DOMAIN stats }
    IN /\ Len(stats) <= 5
       /\ \A i, j \in DOMAIN stats : i < j =>
            /\ stats[i].count >= stats[j].count
            /\ stats[i].category # stats[j].category
       /\ \A i \in DOMAIN stats :
            /\ stats[i].count = PostsOfCategory(stats[i].category)
            /\ stats[i].count >= 1
            /\ 2 * stats[i].percentage * total - 200 * stats[i].count <= total
            /\ 200 * stats[i].count - 2 * stats[i].percentage * total <= total
       /\ \A c \in Range(input) \ listed :
            /\ Len(stats) = 5
            /\ \A i \in DOMAIN stats : PostsOfCategory(c) <= stats[i].count

\* a node with 9 posts in six categories, three of them with two posts: the
\* list holds those three first, at 22 percent each, and two of the other
\* three categories at 11 percent
C26_Witness ==
  /\ LocationRanked
  /\ Len(input) = 9
  /\ Cardinality(Range(input)) = 6
  /\ Len(Value(output).stats) = 5
  /\ Value(output).stats[3].count = 2
  /\ Value(output).stats[3].percentage = 22
  /\ Value(output).stats[4].count = 1
  /\ Value(output).stats[5].percentage = 11

\* the rel rows attached to the posts at the positions in S whose own
\* createdAt is, or is not, within [startDate, endDate]
RECURSIVE TimedOver(_, _, _, _, _)
TimedOver(S, rel, startDate, endDate, within) ==
  IF S = {} THEN 0
  ELSE LET i == CHOOSE x \in S : TRUE
           timed == { k \in DOMAIN posts[i][rel] :
                        (posts[i][rel][k] >= startDate /\ posts[i][rel][k] <= endDate)
                          <=> within }
       IN Cardinality(timed) + TimedOver(S \ {i}, rel, startDate, endDate, within)

\* the comments, reactions and reposts on the posts at the positions in S
\* that were created within the window, or outside it
InteractionsOver(S, startDate, endDate, within) ==
  TimedOver(S, "comments", startDate, endDate, within)
    + TimedOver(S, "reactions", startDate, endDate, within)
    + TimedOver(S, "reposts", startDate, endDate, within)

\* C27: each national total counts the comments, reactions or reposts whose
\* own createdAt lies in [startDate, endDate], both ends included, whichever
\* post they are on; a location entry counts every comment, reaction and
\* repost on the node's in-window posts whatever its own createdAt: its
\* totalEngagement exceeds the posts and the interactions created within the
\* window by the interactions created outside of it, which are in the
\* engagementScore as well and in no national total.
C27_WindowOfInteractions ==
  \A c \in DoneCalls :
    LET r == Result(c)
        s == r.period.startDate
        e == r.period.endDate
    IN /\ r.national.totalComments = TimedOver(DOMAIN posts, "comments", s, e, TRUE)
       /\ r.national.totalReactions = TimedOver(DOMAIN posts, "reactions", s, e, TRUE)
       /\ r.national.totalReposts = TimedOver(DOMAIN posts, "reposts", s, e, TRUE)
       /\ \A l \in LevelLists(r) : \A entry \in Range(l.stats) :
            LET S == NodeWindow(l.ref, entry.id, s, e)
                weighted == Cardinality(S)
                  + 2 * (TimedOver(S, "comments", s, e, TRUE)
                           + TimedOver(S, "comments", s, e, FALSE))
                  + (TimedOver(S, "reactions", s, e, TRUE)
                       + TimedOver(S, "reactions", s, e, FALSE))
                  + 3 * (TimedOver(S, "reposts", s, e, TRUE)
                           + TimedOver(S, "reposts", s, e, FALSE))
                d == IF Cardinality(S) > 1 THEN Cardinality(S) ELSE 1
            IN /\ entry.totalEngagement =
                    Cardinality(S) + InteractionsOver(S, s, e, TRUE)
                      + InteractionsOver(S, s, e, FALSE)
               /\ 2 * entry.engagementScore * d - 200 * weighted <= d
               /\ 200 * weighted - 2 * entry.engagementScore * d <= d

\* the summary of the window [1, 1] over one post created at 1 in cell c1
\* with a reaction created at 1 and a comment and a repost created later:
\* the cell counts 4 and scores 7.00, the national totals count the post and
\* the reaction only
C27_Witness ==
  \E c \in DoneCalls :
    LET r == Result(c) IN
    /\ r.period = [startDate |-> 1, endDate |-> 1]
    /\ Len(posts) = 1
    /\ posts[1].createdAt = 1
    /\ posts[1].comments = <<MaxTime>>
    /\ posts[1].reposts = <<MaxTime>>
    /\ posts[1].reactions = <<1>>
    /\ r.national.totalPosts = 1
    /\ r.national.totalComments = 0
    /\ r.national.totalReactions = 1
    /\ r.national.totalReposts = 0
    /\ \E entry \in Range(r.cellStats) :
         /\ entry.id = posts[1].cellId
         /\ entry.totalEngagement = 4
         /\ entry.engagementScore = 700

\* C28: in every summary generateSummary returns the counts of the
\* topCategories entries sum to national.totalPosts, for every interleaving
\* of the call's reads with creations and deletions of posts.
C28_CategoryCountsSum ==
  \A c \in DoneCalls :
    LET r == Result(c)
    IN SumSeq([i \in DOMAIN r.topCategories |-> r.topCategories[i].count])
         = r.national.totalPosts

\* C29: every PostBuilder operation that throws (setContent, setAuthorId,
\* setLocation, setCategory, addHashtag, addHashtags, addImage, addImages,
\* build) leaves all fields of the builder, its two lists included, as they
\* were before the call: a rejected call adds no part of its input.
C29_ThrowLeavesBuilder ==
  [][outcome'.thrown # NULL => builder' = builder /\ arrays' = arrays]_vars

\* a DELETE /reposts request
DeletionAsked(r) == requests[r].pc # "idle" /\ requests[r].route = "DELETE /reposts"

\* the id the request names, NULL if none
RepostIdOf(r) == Value(requests[r].body).id

\* the repost of that id in the table the request arrived at, NULL if none
RepostSeen(r) ==
  IF RepostIdOf(r) = NULL THEN NULL
  ELSE FindRow(Value(requests[r].seen).reposts, Value(RepostIdOf(r)))

\* the reposts that requests answered with success have named
DeletedReposts ==
  { row \in SeedReposts :
      \E r \in RequestIds :
        /\ DeletionAsked(r) /\ Answered(r) /\ StatusOf(r) = 200
        /\ RepostIdOf(r) = Some(row.id) }

====
